---- MODULE Spec2Model ----
(***************************************************************************)
(* A model of kosong's streaming merge (generate), the step orchestrator   *)
(* (step, StepResult.tool_results) and the SimpleToolset dispatcher.       *)
(*                                                                         *)
(* Python objects are mutable and shared by reference: the parts a         *)
(* provider yields are the objects the merger mutates in place and the     *)
(* objects that end up in the builder and in step's tool_calls list.  The  *)
(* model keeps them in a heap, message_parts, indexed by the position at   *)
(* which the provider yields them; pending_part, the builder's lists and   *)
(* step's tool_calls hold indices (references) into it.                    *)
(*                                                                         *)
(* Strings are TLA+ strings.  A value of type `str | None` is an option:   *)
(* None is <<>> and the string s is <<s>>.                                 *)
(***************************************************************************)
EXTENDS Integers, Sequences, FiniteSets, TLC

VARIABLES
    stream,               \* the values the provider's parts had before the run (never changes)
    message_parts,        \* heap: the provider's part objects, mutated in place by merging
    pos,                  \* number of parts pulled from the stream so far
    pc,                   \* position of the generate coroutine
    part,                 \* reference to the part of this loop iteration (0: none)
    pending_part,         \* reference to the pending part (0: None)
    content_parts,        \* _MessageBuilder.content_parts (references)
    builder_tool_calls,   \* _MessageBuilder.tool_calls (references)
    delivered,            \* the values on_message_part has received, in order
    outcome,              \* what step has done: running, returned a StepResult, or raised
    tool_calls,           \* step's tool_calls list (references), appended by on_tool_call
    tool_result_futures,  \* step's dict: tool-call id -> index into dispatches
    dispatches,           \* one record per on_tool_call: the future and the tool task
    fired,                \* per on_tool_call: what generate had done when it fired
    tool_result_log,      \* the ToolResults on_tool_result has received, in order
    rpc,                  \* position of the tool_results() coroutine
    results,              \* the list tool_results() is building
    stream_closed,        \* the provider's stream (async generator) has been finalised
    context,              \* the Context handed to step: history, system_prompt, tools
    provider,             \* the chat provider (adapter) in use
    request,              \* the wire payload the adapter has built for the SDK call
    sdk_error,            \* the exception the provider's SDK has raised (None: none)
    surfaced,             \* the exception the adapter has raised in its place (None: none)
    returned,             \* the messages the earlier generate calls on this provider returned
    jsonl,                \* the lines of the JSONL file on disk (JSON objects)
    writer,               \* the JsonlLinearStorage that writes: _messages, _token_count, _file
    fresh                 \* a second JsonlLinearStorage after its restore() (None: none yet)

vars == <<stream, message_parts, pos, pc, part, pending_part, content_parts,
          builder_tool_calls, delivered, outcome, tool_calls, tool_result_futures,
          dispatches, fired, tool_result_log, rpc, results, stream_closed,
          context, provider, request, sdk_error, surfaced, returned,
          jsonl, writer, fresh>>

genVars == <<message_parts, pos, pc, part, pending_part, content_parts,
             builder_tool_calls, delivered, outcome>>

stepVars == <<tool_calls, tool_result_futures, dispatches, fired, tool_result_log>>

resVars == <<rpc, results>>

\* What a step never writes: its context, and the state of the adapters.
envVars == <<context, provider, request, sdk_error, surfaced>>

\* The persisted history: the file and the two storages.
storeVars == <<jsonl, writer, fresh>>

----------------------------------------------------------------------------
(* Bounds *)

MaxStream == 3

MaxThinkStream == 3

MaxContent == 4

----------------------------------------------------------------------------
(* Optional strings and Python truthiness *)

None == <<>>

Some(s) == <<s>>

\* Python's `x or d` for x : str | None (None and "" are both falsy).
OrElse(x, d) == IF x = None \/ x = Some("") THEN d ELSE x[1]

\* Python's truthiness of x : str | None.
Truthy(x) == x # None /\ x # Some("")

----------------------------------------------------------------------------
(* Message parts *)

TextPart(text) == [type |-> "text", text |-> text]

ThinkPart(think, encrypted) == [type |-> "think", think |-> think, encrypted |-> encrypted]

ImageURLPart == [type |-> "image_url"]

ToolCall(id, name, arguments) ==
    [type |-> "function", id |-> id, name |-> name, arguments |-> arguments]

ToolCallPart(arguments_part) ==
    [type |-> "tool_call_part", arguments_part |-> arguments_part]

IsContentPart(p) == p.type \in {"text", "think", "image_url"}

IsToolCall(p) == p.type = "function"

IsToolCallPart(p) == p.type = "tool_call_part"

\* MergeableMixin.merge_in_place: the default refuses every merge.
Mixin_merge_in_place(self, other) == [ok |-> FALSE, self |-> self]

\* Mutant: `self.text = other.text` in place of `self.text += other.text`.
TextPart_merge_overwrite(self, other) ==
    IF other.type # "text"
    THEN [ok |-> FALSE, self |-> self]
    ELSE [ok |-> TRUE, self |-> [self EXCEPT !.text = other.text]]

TextPart_merge_in_place(self, other) ==
    IF other.type # "text"
    THEN [ok |-> FALSE, self |-> self]
    ELSE [ok |-> TRUE, self |-> [self EXCEPT !.text = self.text \o other.text]]

\* Mutant: a ThinkPart merges whether or not it is sealed.
ThinkPart_merge_unsealed(self, other) ==
    IF other.type # "think"
    THEN [ok |-> FALSE, self |-> self]
    ELSE [ok |-> TRUE,
          self |-> [self EXCEPT !.think = self.think \o other.think,
                                !.encrypted = IF Truthy(other.encrypted)
                                              THEN other.encrypted
                                              ELSE self.encrypted]]

ThinkPart_merge_in_place(self, other) ==
    IF other.type # "think"
    THEN [ok |-> FALSE, self |-> self]
    ELSE IF Truthy(self.encrypted)
    THEN [ok |-> FALSE, self |-> self]
    ELSE [ok |-> TRUE,
          self |-> [self EXCEPT !.think = self.think \o other.think,
                                !.encrypted = IF Truthy(other.encrypted)
                                              THEN other.encrypted
                                              ELSE self.encrypted]]

\* Mutant: the fragment is put in front of the arguments instead of after them.
ToolCall_merge_prepend(self, other) ==
    IF other.type # "tool_call_part"
    THEN [ok |-> FALSE, self |-> self]
    ELSE IF self.arguments = None
    THEN [ok |-> TRUE, self |-> [self EXCEPT !.arguments = other.arguments_part]]
    ELSE [ok |-> TRUE,
          self |-> [self EXCEPT !.arguments =
                        Some(OrElse(other.arguments_part, "") \o self.arguments[1])]]

\* Mutant: a ToolCall refuses every merge (the MergeableMixin default).
ToolCall_merge_refuse(self, other) == [ok |-> FALSE, self |-> self]

ToolCall_merge_in_place(self, other) ==
    IF other.type # "tool_call_part"
    THEN [ok |-> FALSE, self |-> self]
    ELSE IF self.arguments = None
    THEN [ok |-> TRUE, self |-> [self EXCEPT !.arguments = other.arguments_part]]
    ELSE [ok |-> TRUE,
          self |-> [self EXCEPT !.arguments =
                        Some(self.arguments[1] \o OrElse(other.arguments_part, ""))]]

ToolCallPart_merge_in_place(self, other) ==
    IF other.type # "tool_call_part"
    THEN [ok |-> FALSE, self |-> self]
    ELSE IF self.arguments_part = None
    THEN [ok |-> TRUE, self |-> [self EXCEPT !.arguments_part = other.arguments_part]]
    ELSE [ok |-> TRUE,
          self |-> [self EXCEPT !.arguments_part =
                        Some(self.arguments_part[1] \o OrElse(other.arguments_part, ""))]]

\* Dynamic dispatch of self.merge_in_place(other) on the class of self.
merge_in_place(self, other) ==
    CASE self.type = "text" -> TextPart_merge_in_place(self, other)
      [] self.type = "think" -> ThinkPart_merge_in_place(self, other)
      [] self.type = "function" -> ToolCall_merge_in_place(self, other)
      [] self.type = "tool_call_part" -> ToolCallPart_merge_in_place(self, other)
      [] OTHER -> Mixin_merge_in_place(self, other)

----------------------------------------------------------------------------
(* The parts a provider may yield *)

Texts == {"", "x", "y"}

TextUniverse == {TextPart(t) : t \in Texts}

ThinkUniverse == {ThinkPart("t", None), ThinkPart("", Some("e"))}

ToolCallUniverse ==
    { ToolCall("1", "plus", None),
      ToolCall("1", "plus", Some("{")),
      ToolCall("2", "raise", Some("")),
      ToolCall("2", "not_found", Some("{")) }

ToolCallPartUniverse == {ToolCallPart(None), ToolCallPart(Some("")), ToolCallPart(Some("a}"))}

PartUniverse ==
    TextUniverse \cup ThinkUniverse \cup {ImageURLPart}
        \cup ToolCallUniverse \cup ToolCallPartUniverse

Streams == UNION {[1..n -> PartUniverse] : n \in 0..MaxStream}

\* The parts of a reasoning provider: thinking with no signature, with an empty
\* one and with a real one, beside a text and a tool call.
ReasoningUniverse ==
    { ThinkPart("t", None), ThinkPart("u", Some("")), ThinkPart("", Some("e")),
      ThinkPart("v", Some("f")), TextPart("x"), ToolCall("2", "raise", Some("")) }

ReasoningStreams == UNION {[1..n -> ReasoningUniverse] : n \in 0..MaxThinkStream}

----------------------------------------------------------------------------
(* Tooling: results, the registered tools, SimpleToolset.handle *)

Ids == {"1", "2"}

ToolOk == [class |-> "ToolOk"]

ToolNotFoundError(tool_name) == [class |-> "ToolNotFoundError", tool_name |-> tool_name]

ToolParseError == [class |-> "ToolParseError"]

ToolValidateError == [class |-> "ToolValidateError"]

ToolRuntimeError == [class |-> "ToolRuntimeError"]

ToolResult(tool_call_id, result) == [tool_call_id |-> tool_call_id, result |-> result]

\* The toolset of test_simple_toolset: `plus` requires the property "a" and
\* returns; `raise` requires nothing and raises.  A JSON object is modelled by
\* the set of its keys and a schema by the set of keys it requires.
tool_dict ==
    [plus |-> [required |-> {"a"}, raises |-> FALSE],
     raise |-> [required |-> {}, raises |-> TRUE]]

\* json.loads on the argument strings the model can build: "{}" and "{a}" (an
\* object with the key "a") are the JSON documents among them, every other
\* string raises JSONDecodeError.
json_loads(s) ==
    CASE s = "{}" -> [ok |-> TRUE, value |-> {}]
      [] s = "{a}" -> [ok |-> TRUE, value |-> {"a"}]
      [] OTHER -> [ok |-> FALSE, value |-> {}]

\* jsonschema.validate: TRUE iff the instance has every required property.
jsonschema_validate(instance, parameters) == parameters.required \subseteq instance

\* Mutant: handle runs the tool's callable to completion itself and returns its
\* ToolResult, instead of returning a task that will.
handle_blocking(tool_call) ==
    IF tool_call.name \notin DOMAIN tool_dict
    THEN [kind |-> "result",
          result |-> ToolResult(tool_call.id, ToolNotFoundError(tool_call.name))]
    ELSE LET tool == tool_dict[tool_call.name]
             loaded == json_loads(OrElse(tool_call.arguments, "{}"))
         IN  IF ~loaded.ok
             THEN [kind |-> "result", result |-> ToolResult(tool_call.id, ToolParseError)]
             ELSE IF ~jsonschema_validate(loaded.value, tool)
             THEN [kind |-> "result",
                   result |-> ToolResult(tool_call.id, ToolValidateError)]
             ELSE [kind |-> "result",
                   result |-> ToolResult(tool_call.id,
                                         IF tool.raises THEN ToolRuntimeError ELSE ToolOk)]

\* Mutant: the arguments are parsed before the tool is looked up.
handle_parse_first(tool_call) ==
    LET loaded == json_loads(OrElse(tool_call.arguments, "{}")) IN
    IF ~loaded.ok
    THEN [kind |-> "result", result |-> ToolResult(tool_call.id, ToolParseError)]
    ELSE IF tool_call.name \notin DOMAIN tool_dict
    THEN [kind |-> "result",
          result |-> ToolResult(tool_call.id, ToolNotFoundError(tool_call.name))]
    ELSE IF ~jsonschema_validate(loaded.value, tool_dict[tool_call.name])
    THEN [kind |-> "result", result |-> ToolResult(tool_call.id, ToolValidateError)]
    ELSE [kind |-> "task", tool |-> tool_call.name]

\* Mutant: an unknown tool name raises (a KeyError from the lookup) instead
\* of being answered with a ToolResult.
handle_raise_unknown(tool_call) ==
    IF tool_call.name \notin DOMAIN tool_dict
    THEN [kind |-> "raise"]
    ELSE LET loaded == json_loads(OrElse(tool_call.arguments, "{}")) IN
         IF ~loaded.ok
         THEN [kind |-> "result", result |-> ToolResult(tool_call.id, ToolParseError)]
         ELSE IF ~jsonschema_validate(loaded.value, tool_dict[tool_call.name])
         THEN [kind |-> "result", result |-> ToolResult(tool_call.id, ToolValidateError)]
         ELSE [kind |-> "task", tool |-> tool_call.name]

\* SimpleToolset.handle: a ToolResult at once, or a task running _call.
handle(tool_call) ==
    IF tool_call.name \notin DOMAIN tool_dict
    THEN [kind |-> "result",
          result |-> ToolResult(tool_call.id, ToolNotFoundError(tool_call.name))]
    ELSE LET tool == tool_dict[tool_call.name]
             loaded == json_loads(OrElse(tool_call.arguments, "{}"))
         IN  IF ~loaded.ok
             THEN [kind |-> "result", result |-> ToolResult(tool_call.id, ToolParseError)]
             ELSE IF ~jsonschema_validate(loaded.value, tool)
             THEN [kind |-> "result",
                   result |-> ToolResult(tool_call.id, ToolValidateError)]
             ELSE [kind |-> "task", tool |-> tool_call.name]

\* Mutant: _call without its `except Exception`: a raising callable ends the
\* task with the exception and without a ToolResult.
_call_uncaught(tool_name, tool_call_id) ==
    IF tool_dict[tool_name].raises
    THEN None
    ELSE Some(ToolResult(tool_call_id, ToolOk))

\* SimpleToolset.handle._call run to completion: what the task returns, as an
\* option (None when the task ends without a result).
_call(tool_name, tool_call_id) ==
    IF tool_dict[tool_name].raises
    THEN Some(ToolResult(tool_call_id, ToolRuntimeError))
    ELSE Some(ToolResult(tool_call_id, ToolOk))

----------------------------------------------------------------------------
(* _MessageBuilder *)

\* Mutant: is_empty looks at the content parts only.
is_empty_content_only == content_parts = <<>>

\* _MessageBuilder.is_empty
is_empty == content_parts = <<>> /\ builder_tool_calls = <<>>

Deref(refs) == [k \in 1..Len(refs) |-> message_parts[refs[k]]]

\* _MessageBuilder.build
build ==
    [role |-> "assistant",
     content |-> Deref(content_parts),
     tool_calls |-> IF builder_tool_calls = <<>> THEN None
                    ELSE Some(Deref(builder_tool_calls))]

----------------------------------------------------------------------------
(* Messages and the context of a step *)

\* Message: content is a list of content parts; tool_calls is null (None) or a
\* list (Some(list)); tool_call_id is an optional string.
Message(role, content, calls, call_id) ==
    [role |-> role, content |-> content, tool_calls |-> calls, tool_call_id |-> call_id]

\* SimpleToolset.tools: the registered tools, in registration order.
tools == <<"plus", "raise">>

\* A Context: system_prompt, history, and the tool list of its toolset.
Context(system_prompt, history) ==
    [system_prompt |-> system_prompt, history |-> history, tools |-> tools]

\* The context of the steps of Spec: one user message after a system prompt.
StepContext == Context("sys", <<Message("user", <<TextPart("x")>>, None, None)>>)

\* JsonlLinearStorage.__init__ on a path where no file is: nothing stored, no
\* file opened.  _file is None, or the lines written and not yet flushed.
JsonlLinearStorage ==
    [_messages |-> <<>>, _token_count |-> None, _file |-> None, alive |-> TRUE]

NoStorage ==
    /\ jsonl = <<>>
    /\ writer = JsonlLinearStorage
    /\ fresh = None

----------------------------------------------------------------------------
(* Initial state: a provider holding any stream of at most MaxStream parts *)

Init ==
    /\ stream \in Streams
    /\ message_parts = stream
    /\ pos = 0
    /\ pc = "pull"
    /\ part = 0
    /\ pending_part = 0
    /\ content_parts = <<>>
    /\ builder_tool_calls = <<>>
    /\ delivered = <<>>
    /\ outcome = [kind |-> "running"]
    /\ tool_calls = <<>>
    /\ tool_result_futures = [id \in Ids |-> 0]
    /\ dispatches = <<>>
    /\ fired = <<>>
    /\ tool_result_log = <<>>
    /\ rpc = "idle"
    /\ results = <<>>
    /\ stream_closed = FALSE
    /\ context = StepContext
    /\ provider = "mock"
    /\ request = None
    /\ sdk_error = None
    /\ surfaced = None
    /\ returned = <<>>
    /\ NoStorage

\* The same step over the stream of a reasoning provider.
InitReasoning ==
    /\ stream \in ReasoningStreams
    /\ message_parts = stream
    /\ pos = 0
    /\ pc = "pull"
    /\ part = 0
    /\ pending_part = 0
    /\ content_parts = <<>>
    /\ builder_tool_calls = <<>>
    /\ delivered = <<>>
    /\ outcome = [kind |-> "running"]
    /\ tool_calls = <<>>
    /\ tool_result_futures = [id \in Ids |-> 0]
    /\ dispatches = <<>>
    /\ fired = <<>>
    /\ tool_result_log = <<>>
    /\ rpc = "idle"
    /\ results = <<>>
    /\ stream_closed = FALSE
    /\ context = StepContext
    /\ provider = "mock"
    /\ request = None
    /\ sdk_error = None
    /\ surfaced = None
    /\ returned = <<>>
    /\ NoStorage

----------------------------------------------------------------------------
(* step.on_tool_call and _MessageBuilder.append, as generate calls them *)

\* The exception to propagate when the toolset's handle raises instead of
\* returning; SimpleToolset.handle never does.
Raised(error) == [kind |-> "raised", error |-> error]

\* step.on_tool_call(tool_call): record the call, create its future, register
\* it under the call's id and hand the call to the toolset.  A ToolResult that
\* handle returns at once resolves the future (and runs its done callback,
\* on_tool_result); a task resolves it when _call completes (TaskDone).
on_tool_call(ref) ==
    LET tool_call == message_parts[ref]
        h == handle(tool_call)
        n == Len(dispatches) + 1
    IN  /\ tool_calls' = Append(tool_calls, ref)
        /\ tool_result_futures' = [tool_result_futures EXCEPT ![tool_call.id] = n]
        /\ fired' = Append(fired, [call |-> ref, pulled |-> pos,
                                   delivered |-> Len(delivered),
                                   pending |-> pending_part])
        /\ dispatches' = Append(dispatches,
              [call |-> ref,
               tool |-> tool_call.name,
               task |-> IF h.kind = "task" THEN "running" ELSE "none",
               future |-> IF h.kind = "result" THEN Some(h.result) ELSE None,
               set_count |-> IF h.kind = "result" THEN 1 ELSE 0])
        /\ tool_result_log' = IF h.kind = "result"
                              THEN Append(tool_result_log, h.result)
                              ELSE tool_result_log

\* Mutant: _MessageBuilder.append inserts at the front of its lists.
EmitPending_prepend(next_pc) ==
    LET p == message_parts[pending_part] IN
    /\ content_parts' = IF IsContentPart(p)
                        THEN <<pending_part>> \o content_parts
                        ELSE content_parts
    /\ builder_tool_calls' = IF IsToolCall(p)
                             THEN <<pending_part>> \o builder_tool_calls
                             ELSE builder_tool_calls
    /\ IF IsToolCall(p)
       THEN /\ on_tool_call(pending_part)
            /\ pc' = next_pc /\ UNCHANGED outcome
       ELSE /\ pc' = next_pc
            /\ UNCHANGED <<outcome, stepVars>>

\* Mutant: _MessageBuilder.append keeps a ToolCallPart among the content parts.
EmitPending_keep_orphan(next_pc) ==
    LET p == message_parts[pending_part] IN
    /\ content_parts' = IF IsContentPart(p) \/ IsToolCallPart(p)
                        THEN Append(content_parts, pending_part)
                        ELSE content_parts
    /\ builder_tool_calls' = IF IsToolCall(p)
                             THEN Append(builder_tool_calls, pending_part)
                             ELSE builder_tool_calls
    /\ IF IsToolCall(p)
       THEN /\ on_tool_call(pending_part)
            /\ IF handle(p).kind = "raise"
               THEN pc' = "done" /\ outcome' = Raised("ToolsetError")
               ELSE pc' = next_pc /\ UNCHANGED outcome
       ELSE /\ pc' = next_pc
            /\ UNCHANGED <<outcome, stepVars>>

\* Lines 94-96 and 101-103 of generate: builder.append(pending_part), then
\* on_tool_call when the pending part is a ToolCall.  next_pc is where generate
\* goes on when the callback returns.
EmitPending(next_pc) ==
    LET p == message_parts[pending_part] IN
    /\ content_parts' = IF IsContentPart(p)
                        THEN Append(content_parts, pending_part)
                        ELSE content_parts
    /\ builder_tool_calls' = IF IsToolCall(p)
                             THEN Append(builder_tool_calls, pending_part)
                             ELSE builder_tool_calls
    /\ IF IsToolCall(p)
       THEN /\ on_tool_call(pending_part)
            /\ IF handle(p).kind = "raise"
               THEN pc' = "done" /\ outcome' = Raised("ToolsetError")
               ELSE pc' = next_pc /\ UNCHANGED outcome
       ELSE /\ pc' = next_pc
            /\ UNCHANGED <<outcome, stepVars>>

----------------------------------------------------------------------------
(* generate, one action per stretch between two awaits *)

\* `async for part in stream`: the provider yields its next part.
Pull ==
    /\ pc = "pull"
    /\ pos < Len(stream)
    /\ pos' = pos + 1
    /\ part' = pos + 1
    /\ pc' = "on_message_part"
    /\ UNCHANGED <<stream, message_parts, pending_part, content_parts,
                   builder_tool_calls, delivered, outcome, stepVars,
                   resVars, stream_closed, envVars, returned, storeVars>>

\* The provider raises (connection, timeout, status) instead of yielding: the
\* exception ends the provider's generator, which closes what it holds open.
ProviderError ==
    /\ pc = "pull"
    /\ pc' = "done"
    /\ outcome' = Raised("ChatProviderError")
    /\ stream_closed' = TRUE
    /\ UNCHANGED <<stream, message_parts, pos, part, pending_part, content_parts,
                   builder_tool_calls, delivered, stepVars, resVars, envVars, returned, storeVars>>

\* The stream is exhausted: the provider's generator has run to its end (and
\* closed what it holds open) and the loop ends.
EndOfStream ==
    /\ pc = "pull"
    /\ pos = Len(stream)
    /\ pc' = "end"
    /\ stream_closed' = TRUE
    /\ UNCHANGED <<stream, message_parts, pos, part, pending_part, content_parts,
                   builder_tool_calls, delivered, outcome, stepVars, resVars, envVars, returned, storeVars>>

\* Mutant: the callback is handed the part itself, not a copy of it.
model_copy_alias(ref) == ref

\* part.model_copy(deep=True): the object the callback is handed, as a
\* reference into the heap; 0 is a new object that is not in the heap.
model_copy(ref) == 0

\* What a callback may do to the object it is handed: write to its fields.
Tampered(p) ==
    CASE p.type = "text" -> [p EXCEPT !.text = "!"]
      [] p.type = "think" -> [p EXCEPT !.think = "!"]
      [] p.type = "function" -> [p EXCEPT !.arguments = Some("!")]
      [] p.type = "tool_call_part" -> [p EXCEPT !.arguments_part = Some("!")]
      [] OTHER -> p

\* The callables generate accepts as on_message_part and on_tool_call: plain
\* functions and coroutine functions.
CallbackKinds == {"sync", "async"}

\* kosong.utils.aio.callback(f, *args), which generate awaits: f is called
\* and, when what it returns is awaitable, that is awaited.  TRUE when the
\* invocation has run to completion at the moment the await in generate ends.
callback(kind) ==
    CASE kind = "sync" -> TRUE
      [] kind = "async" -> TRUE

\* Mutant: the callback is started and left running: generate goes on
\* without the invocation having completed.
OnMessagePart_detached ==
    /\ pc = "on_message_part"
    /\ pc' = "merge"
    /\ UNCHANGED <<stream, message_parts, pos, part, pending_part, content_parts,
                   builder_tool_calls, delivered, outcome, stepVars,
                   resVars, stream_closed, envVars, returned, storeVars>>

\* await callback(on_message_part, part.model_copy(deep=True)): the callback
\* receives the part's value and may write to the object it was handed.
OnMessagePart ==
    /\ pc = "on_message_part"
    /\ \E kind \in CallbackKinds :
          delivered' = IF callback(kind)
                       THEN Append(delivered, message_parts[part])
                       ELSE delivered
    /\ \E tamper \in BOOLEAN :
          LET handed == model_copy(part) IN
          message_parts' = IF tamper /\ handed # 0
                           THEN [message_parts EXCEPT ![handed] = Tampered(@)]
                           ELSE message_parts
    /\ pc' = "merge"
    /\ UNCHANGED <<stream, pos, part, pending_part, content_parts,
                   builder_tool_calls, outcome, stepVars,
                   resVars, stream_closed, envVars, returned, storeVars>>

\* pending_part is None: the part becomes the pending part.
BufferFirst ==
    /\ pc = "merge"
    /\ pending_part = 0
    /\ pending_part' = part
    /\ pc' = "pull"
    /\ UNCHANGED <<stream, message_parts, pos, part, content_parts,
                   builder_tool_calls, delivered, outcome, stepVars,
                   resVars, stream_closed, envVars, returned, storeVars>>

\* pending_part.merge_in_place(part) succeeds: the pending object has changed.
MergeIntoPending ==
    /\ pc = "merge"
    /\ pending_part # 0
    /\ LET m == merge_in_place(message_parts[pending_part], message_parts[part]) IN
       /\ m.ok
       /\ message_parts' = [message_parts EXCEPT ![pending_part] = m.self]
    /\ pc' = "pull"
    /\ UNCHANGED <<stream, pos, part, pending_part, content_parts,
                   builder_tool_calls, delivered, outcome, stepVars,
                   resVars, stream_closed, envVars, returned, storeVars>>

\* Mutant: a pending part flushed mid-stream goes to the builder only; its
\* on_tool_call is left out.
FlushPending_no_callback ==
    /\ pc = "merge"
    /\ pending_part # 0
    /\ ~merge_in_place(message_parts[pending_part], message_parts[part]).ok
    /\ LET p == message_parts[pending_part] IN
       /\ content_parts' = IF IsContentPart(p)
                           THEN Append(content_parts, pending_part)
                           ELSE content_parts
       /\ builder_tool_calls' = IF IsToolCall(p)
                                THEN Append(builder_tool_calls, pending_part)
                                ELSE builder_tool_calls
    /\ pc' = "rebuffer"
    /\ UNCHANGED <<stream, message_parts, pos, part, pending_part, delivered, outcome,
                   stepVars, resVars, stream_closed, envVars, returned, storeVars>>

\* The merge fails: the pending part goes to the builder and, if it is a
\* ToolCall, to on_tool_call.
FlushPending ==
    /\ pc = "merge"
    /\ pending_part # 0
    /\ ~merge_in_place(message_parts[pending_part], message_parts[part]).ok
    /\ EmitPending("rebuffer")
    /\ UNCHANGED <<stream, message_parts, pos, part, pending_part, delivered,
                   resVars, stream_closed, envVars, returned, storeVars>>

\* pending_part = part, after the flush.
Rebuffer ==
    /\ pc = "rebuffer"
    /\ pending_part' = part
    /\ pc' = "pull"
    /\ UNCHANGED <<stream, message_parts, pos, part, content_parts,
                   builder_tool_calls, delivered, outcome, stepVars,
                   resVars, stream_closed, envVars, returned, storeVars>>

\* Mutant: the pending part is flushed at end-of-stream without on_tool_call.
FlushAtEnd_no_callback ==
    /\ pc = "end"
    /\ IF pending_part # 0
       THEN LET p == message_parts[pending_part] IN
            /\ content_parts' = IF IsContentPart(p)
                                THEN Append(content_parts, pending_part)
                                ELSE content_parts
            /\ builder_tool_calls' = IF IsToolCall(p)
                                     THEN Append(builder_tool_calls, pending_part)
                                     ELSE builder_tool_calls
       ELSE UNCHANGED <<content_parts, builder_tool_calls>>
    /\ pc' = "finish"
    /\ UNCHANGED <<stream, message_parts, pos, part, pending_part, delivered,
                   outcome, stepVars,
                   resVars, stream_closed, envVars, returned, storeVars>>

\* End of message: flush the pending part, if any.
FlushAtEnd ==
    /\ pc = "end"
    /\ IF pending_part # 0
       THEN EmitPending("finish")
       ELSE /\ pc' = "finish"
            /\ UNCHANGED <<content_parts, builder_tool_calls, outcome, stepVars>>
    /\ UNCHANGED <<stream, message_parts, pos, part, pending_part, delivered,
                   resVars, stream_closed, envVars, returned, storeVars>>

\* Mutant: step appends the generated message to the context's history before
\* it returns.
Finish_add_message ==
    /\ pc = "finish"
    /\ pc' = "done"
    /\ outcome' = IF is_empty
                  THEN Raised("APIEmptyResponseError")
                  ELSE [kind |-> "returned",
                        message |-> build,
                        tool_calls |-> Deref(tool_calls)]
    /\ context' = IF is_empty THEN context
                  ELSE [context EXCEPT !.history =
                           Append(@, Message(build.role, build.content,
                                             build.tool_calls, None))]
    /\ UNCHANGED <<stream, message_parts, pos, part, pending_part, content_parts,
                   builder_tool_calls, delivered, stepVars, resVars, stream_closed,
                   provider, request, sdk_error, surfaced, returned, storeVars>>

\* generate raises APIEmptyResponseError or returns the built message, and
\* step returns StepResult(message, usage, tool_calls, tool_result_futures).
Finish ==
    /\ pc = "finish"
    /\ pc' = "done"
    /\ outcome' = IF is_empty
                  THEN Raised("APIEmptyResponseError")
                  ELSE [kind |-> "returned",
                        message |-> build,
                        tool_calls |-> Deref(tool_calls)]
    /\ UNCHANGED <<stream, message_parts, pos, part, pending_part, content_parts,
                   builder_tool_calls, delivered, stepVars,
                   resVars, stream_closed, envVars, returned, storeVars>>

----------------------------------------------------------------------------
(* Tool tasks: asyncio.create_task(_call()) *)

\* The task of dispatch k runs _call to completion and its ToolResult resolves
\* the future of that dispatch, whose done callback calls on_tool_result.
TaskDone(k) ==
    /\ dispatches[k].task = "running"
    /\ LET d == dispatches[k]
           r == _call(d.tool, message_parts[d.call].id)
       IN  IF r = None
           THEN /\ dispatches' = [dispatches EXCEPT ![k].task = "failed"]
                /\ UNCHANGED tool_result_log
           ELSE /\ dispatches' = [dispatches EXCEPT ![k].task = "done",
                                                    ![k].future = r,
                                                    ![k].set_count = d.set_count + 1]
                /\ tool_result_log' = Append(tool_result_log, r[1])
    /\ UNCHANGED <<stream, genVars, tool_calls, tool_result_futures, fired,
                   resVars, stream_closed, envVars, returned, storeVars>>

\* The task of dispatch k is cancelled while it awaits tool.call: CancelledError
\* is not an Exception, so `except Exception` in _call does not catch it and
\* the task ends cancelled, without a ToolResult.
CancelTask(k) ==
    /\ dispatches[k].task = "running"
    /\ dispatches' = [dispatches EXCEPT ![k].task = "cancelled"]
    /\ UNCHANGED <<stream, genVars, tool_calls, tool_result_futures, fired,
                   tool_result_log, resVars, stream_closed, envVars, returned, storeVars>>

----------------------------------------------------------------------------
(* StepResult.tool_results *)

\* Mutant: the futures are taken in the dict's insertion order (the order in
\* which the ids were first dispatched) instead of being looked up by id.
FutureOf_dict_order(i) ==
    LET first(id) == CHOOSE k \in 1..Len(dispatches) :
                        /\ message_parts[dispatches[k].call].id = id
                        /\ \A j \in 1..(k - 1) : message_parts[dispatches[j].call].id # id
        keys == {message_parts[dispatches[k].call].id : k \in 1..Len(dispatches)}
        nth == CHOOSE id \in keys :
                  Cardinality({o \in keys : first(o) <= first(id)}) = i
    IN  IF i <= Cardinality(keys)
        THEN dispatches[tool_result_futures[nth]]
        ELSE dispatches[tool_result_futures[message_parts[tool_calls[i]].id]]

\* The future tool_results() awaits for the i-th tool call.
FutureOf(i) == dispatches[tool_result_futures[message_parts[tool_calls[i]].id]]

\* The caller awaits tool_results() on the StepResult that step returned.
ToolResultsStart ==
    /\ outcome.kind = "returned"
    /\ rpc = "idle"
    /\ rpc' = IF \A id \in Ids : tool_result_futures[id] = 0
              THEN "returned"
              ELSE "awaiting"
    /\ UNCHANGED <<stream, genVars, stepVars, results, stream_closed, envVars, returned, storeVars>>

\* `result = await self.tool_result_futures[tool_call.id]` for the next tool
\* call: proceeds once that future is resolved.
AwaitFuture ==
    /\ rpc = "awaiting"
    /\ LET i == Len(results) + 1 IN
       /\ FutureOf(i).future # None
       /\ results' = Append(results, FutureOf(i).future[1])
       /\ rpc' = IF i = Len(tool_calls) THEN "returned" ELSE "awaiting"
    /\ UNCHANGED <<stream, genVars, stepVars, stream_closed, envVars, returned, storeVars>>

----------------------------------------------------------------------------

Next ==
    \/ Pull
    \/ ProviderError
    \/ EndOfStream
    \/ OnMessagePart
    \/ BufferFirst
    \/ MergeIntoPending
    \/ FlushPending
    \/ Rebuffer
    \/ FlushAtEnd
    \/ Finish
    \/ \E k \in 1..Len(dispatches) : TaskDone(k)
    \/ \E k \in 1..Len(dispatches) : CancelTask(k)
    \/ ToolResultsStart
    \/ AwaitFuture

Spec == Init /\ [][Next]_vars

----------------------------------------------------------------------------
(* generate called again on the same provider *)

MaxRuns == 2

\* The parts of a provider that is asked twice: parts that merge (texts,
\* thinking, a ToolCall and its fragment) and a signature that seals.
RepeatUniverse ==
    { TextPart("x"), ThinkPart("t", None), ThinkPart("", Some("e")),
      ToolCall("1", "plus", Some("{")), ToolCallPart(Some("a}")) }

RepeatStreams == UNION {[1..n -> RepeatUniverse] : n \in 0..MaxStream}

InitRepeat ==
    /\ stream \in RepeatStreams
    /\ message_parts = stream
    /\ pos = 0
    /\ pc = "pull"
    /\ part = 0
    /\ pending_part = 0
    /\ content_parts = <<>>
    /\ builder_tool_calls = <<>>
    /\ delivered = <<>>
    /\ outcome = [kind |-> "running"]
    /\ tool_calls = <<>>
    /\ tool_result_futures = [id \in Ids |-> 0]
    /\ dispatches = <<>>
    /\ fired = <<>>
    /\ tool_result_log = <<>>
    /\ rpc = "idle"
    /\ results = <<>>
    /\ stream_closed = FALSE
    /\ context = StepContext
    /\ provider = "mock"
    /\ request = None
    /\ sdk_error = None
    /\ surfaced = None
    /\ returned = <<>>
    /\ NoStorage

\* A second step on the same MockChatProvider, after the first has returned:
\* MockChatProvider.generate hands out a stream over self._message_parts, the
\* list it was built with, whose objects hold what the first run left in
\* them.  The message the first run returned is kept, as it was returned.
GenerateAgain ==
    /\ outcome.kind = "returned"
    /\ Len(returned) < MaxRuns - 1
    /\ returned' = Append(returned, outcome.message)
    /\ stream' = message_parts
    /\ pos' = 0
    /\ pc' = "pull"
    /\ part' = 0
    /\ pending_part' = 0
    /\ content_parts' = <<>>
    /\ builder_tool_calls' = <<>>
    /\ delivered' = <<>>
    /\ outcome' = [kind |-> "running"]
    /\ tool_calls' = <<>>
    /\ tool_result_futures' = [id \in Ids |-> 0]
    /\ dispatches' = <<>>
    /\ fired' = <<>>
    /\ tool_result_log' = <<>>
    /\ rpc' = "idle"
    /\ results' = <<>>
    /\ stream_closed' = FALSE
    /\ UNCHANGED <<message_parts, envVars, storeVars>>

NextRepeat == Next \/ GenerateAgain

SpecRepeat == InitRepeat /\ [][NextRepeat]_vars

----------------------------------------------------------------------------
(* The adapters: conversion of the SDKs' errors *)

\* The variables of a step that has not begun: generate is at line 84, in
\* chat_provider.generate.
NoStep ==
    /\ stream = <<>>
    /\ message_parts = <<>>
    /\ pos = 0
    /\ pc = "chat_provider_generate"
    /\ part = 0
    /\ pending_part = 0
    /\ content_parts = <<>>
    /\ builder_tool_calls = <<>>
    /\ delivered = <<>>
    /\ outcome = [kind |-> "running"]
    /\ tool_calls = <<>>
    /\ tool_result_futures = [id \in Ids |-> 0]
    /\ dispatches = <<>>
    /\ fired = <<>>
    /\ tool_result_log = <<>>
    /\ rpc = "idle"
    /\ results = <<>>
    /\ stream_closed = FALSE

\* kosong.chat_provider's exceptions.
ChatProviderError(message) == [class |-> "ChatProviderError", message |-> message]

APIConnectionError(message) == [class |-> "APIConnectionError", message |-> message]

APITimeoutError(message) == [class |-> "APITimeoutError", message |-> message]

APIStatusError(status_code, message) ==
    [class |-> "APIStatusError", status_code |-> status_code, message |-> message]

\* An exception raised by an SDK: the classes it is an instance of, its
\* status code (0: it has no such attribute) and its message.
SdkError(classes, status_code, message) ==
    [classes |-> classes, status_code |-> status_code, message |-> message]

isinstance(error, class) == class \in error.classes

getattr_status(error, default) ==
    IF error.status_code = 0 THEN default ELSE error.status_code

ErrorMessages == {"", "boom", "timed out"}

\* The exceptions of the anthropic and openai SDKs; in both, the timeout
\* error is a subclass of the connection error.
SdkErrorsOf(base, named) ==
    UNION { { SdkError({base}, 0, m),
              SdkError({base, "APIError", "APIConnectionError"}, 0, m),
              SdkError({base, "APIError", "APIConnectionError", "APITimeoutError"}, 0, m) }
            \cup { SdkError({base, "APIError", "APIStatusError"}, c, m) : c \in {400, 500} }
            \cup (IF named
                  THEN { SdkError({base, "APIError", "APIStatusError", "AuthenticationError"},
                                  401, m),
                         SdkError({base, "APIError", "APIStatusError", "PermissionDeniedError"},
                                  403, m),
                         SdkError({base, "APIError", "APIStatusError", "RateLimitError"},
                                  429, m) }
                  ELSE { SdkError({base, "APIError", "APIStatusError"}, c, m) :
                             c \in {401, 403, 429} })
          : m \in ErrorMessages }

\* What the google-genai client raises: its APIError, ClientError (4xx) and
\* ServerError (5xx), and Python's TimeoutError or any other exception.
GeminiErrors ==
    UNION { { SdkError({"Exception"}, 0, m),
              SdkError({"Exception", "TimeoutError"}, 0, m),
              SdkError({"Exception", "APIError"}, 0, m) }
            \cup { SdkError({"Exception", "APIError", "ClientError"}, c, m) :
                       c \in {400, 401, 403, 429} }
            \cup { SdkError({"Exception", "APIError", "ServerError"}, c, m) :
                       c \in {500, 503} }
          : m \in ErrorMessages }

Providers == {"anthropic", "openai_responses", "gemini"}

SdkErrors(p) ==
    CASE p = "anthropic" -> SdkErrorsOf("AnthropicError", TRUE)
      [] p = "openai_responses" -> SdkErrorsOf("OpenAIError", FALSE)
      [] OTHER -> GeminiErrors

\* anthropic.convert_error
Anthropic_convert_error(error) ==
    IF isinstance(error, "APIStatusError")
    THEN APIStatusError(error.status_code, error.message)
    ELSE IF isinstance(error, "AuthenticationError")
    THEN APIStatusError(getattr_status(error, 401), error.message)
    ELSE IF isinstance(error, "PermissionDeniedError")
    THEN APIStatusError(getattr_status(error, 403), error.message)
    ELSE IF isinstance(error, "RateLimitError")
    THEN APIStatusError(getattr_status(error, 429), error.message)
    ELSE IF isinstance(error, "APIConnectionError")
    THEN APIConnectionError(error.message)
    ELSE IF isinstance(error, "APITimeoutError")
    THEN APITimeoutError(error.message)
    ELSE ChatProviderError("Anthropic error: " \o error.message)

\* openai_responses.convert_error
OpenAIResponses_convert_error(error) ==
    IF isinstance(error, "APIStatusError")
    THEN APIStatusError(error.status_code, error.message)
    ELSE IF isinstance(error, "APIConnectionError")
    THEN APIConnectionError(error.message)
    ELSE IF isinstance(error, "APITimeoutError")
    THEN APITimeoutError(error.message)
    ELSE ChatProviderError("Error: " \o error.message)

\* gemini._convert_error
Gemini_convert_error(error) ==
    IF isinstance(error, "ClientError")
    THEN LET status_code == getattr_status(error, 400) IN
         IF status_code = 401
         THEN APIStatusError(401, "Authentication failed: " \o error.message)
         ELSE IF status_code = 403
         THEN APIStatusError(403, "Permission denied: " \o error.message)
         ELSE IF status_code = 429
         THEN APIStatusError(429, "Rate limit exceeded: " \o error.message)
         ELSE APIStatusError(status_code, error.message)
    ELSE IF isinstance(error, "ServerError")
    THEN APIStatusError(getattr_status(error, 500), "Server error: " \o error.message)
    ELSE IF isinstance(error, "APIError")
    THEN APIStatusError(getattr_status(error, 500), error.message)
    ELSE IF isinstance(error, "TimeoutError")
    THEN APITimeoutError("Request timed out: " \o error.message)
    ELSE ChatProviderError("Unexpected Gemini error: " \o error.message)

convert_error(p, error) ==
    CASE p = "anthropic" -> Anthropic_convert_error(error)
      [] p = "openai_responses" -> OpenAIResponses_convert_error(error)
      [] OTHER -> Gemini_convert_error(error)

\* The `except` clause around the SDK call: which exceptions it catches, when
\* the request is made (create) and while the response is read (stream).
Caught(p, phase, error) ==
    CASE p = "anthropic" -> isinstance(error, "AnthropicError")
      [] p = "openai_responses" -> isinstance(error, "OpenAIError")
      [] OTHER -> IF phase = "create" THEN TRUE ELSE isinstance(error, "APIError")

\* The exception that leaves the adapter when its SDK raises error: the
\* converted one, or error itself when the except clause does not catch it.
Surfacing(p, phase, error) ==
    IF Caught(p, phase, error)
    THEN convert_error(p, error)
    ELSE [class |-> "uncaught", message |-> error.message]

InitConvertError ==
    /\ NoStep
    /\ context = StepContext
    /\ provider \in Providers
    /\ request = None
    /\ sdk_error = None
    /\ surfaced = None
    /\ returned = <<>>
    /\ NoStorage

\* chat_provider.generate: the SDK call that makes the request raises.
CreateRaises ==
    /\ pc = "chat_provider_generate"
    /\ \E error \in SdkErrors(provider) :
          /\ sdk_error' = Some(error)
          /\ surfaced' = Some(Surfacing(provider, "create", error))
          /\ outcome' = Raised(Surfacing(provider, "create", error).class)
    /\ pc' = "done"
    /\ UNCHANGED <<stream, message_parts, pos, part, pending_part, content_parts,
                   builder_tool_calls, delivered, stepVars, resVars, stream_closed,
                   context, provider, request, returned, storeVars>>

\* chat_provider.generate returns the streamed message.
CreateReturns ==
    /\ pc = "chat_provider_generate"
    /\ pc' = "pull"
    /\ UNCHANGED <<stream, message_parts, pos, part, pending_part, content_parts,
                   builder_tool_calls, delivered, outcome, stepVars, resVars,
                   stream_closed, envVars, returned, storeVars>>

\* The SDK raises while the response is read: the adapter's generator ends.
StreamRaises ==
    /\ pc = "pull"
    /\ \E error \in SdkErrors(provider) :
          /\ sdk_error' = Some(error)
          /\ surfaced' = Some(Surfacing(provider, "stream", error))
          /\ outcome' = Raised(Surfacing(provider, "stream", error).class)
    /\ pc' = "done"
    /\ stream_closed' = TRUE
    /\ UNCHANGED <<stream, message_parts, pos, part, pending_part, content_parts,
                   builder_tool_calls, delivered, stepVars, resVars,
                   context, provider, request, returned, storeVars>>

NextConvertError ==
    \/ CreateRaises
    \/ CreateReturns
    \/ StreamRaises

SpecConvertError == InitConvertError /\ [][NextConvertError]_vars

----------------------------------------------------------------------------
(* The Anthropic adapter: encoding of the history *)

\* Wire blocks.  cache_control is None when the block has no such key.
TextBlockParam(text) == [type |-> "text", text |-> text, cache_control |-> None]

ImageBlockParam == [type |-> "image", cache_control |-> None]

ThinkingBlockParam(thinking, signature) ==
    [type |-> "thinking", thinking |-> thinking, signature |-> signature,
     cache_control |-> None]

ToolUseBlockParam(id, name, input) ==
    [type |-> "tool_use", id |-> id, name |-> name, input |-> input,
     cache_control |-> None]

ToolResultBlockParam(tool_use_id, content) ==
    [type |-> "tool_result", tool_use_id |-> tool_use_id, content |-> content,
     cache_control |-> None]

MessageParam(role, content) == [role |-> role, content |-> content]

\* A value returned, or a ChatProviderError raised.
Ok(value) == [ok |-> TRUE, value |-> value]

Raise(message) == [ok |-> FALSE, error |-> ChatProviderError(message)]

\* _tool_result_message_to_block: the content loop, then the block.
RECURSIVE ToolResultContent(_)
ToolResultContent(content) ==
    IF content = <<>> THEN Ok(<<>>)
    ELSE LET p == Head(content)
             rest == ToolResultContent(Tail(content))
         IN  IF p.type \notin {"text", "image_url"}
             THEN Raise("Anthropic API does not support this part in tool result")
             ELSE IF ~rest.ok THEN rest
             ELSE IF p.type = "text"
             THEN Ok((IF p.text # "" THEN <<TextBlockParam(p.text)>> ELSE <<>>)
                         \o rest.value)
             ELSE Ok(<<ImageBlockParam>> \o rest.value)

_tool_result_message_to_block(message) ==
    IF message.tool_call_id = None
    THEN Raise("Tool response is missing tool_call_id")
    ELSE LET content == ToolResultContent(message.content) IN
         IF ~content.ok THEN content
         ELSE Ok(ToolResultBlockParam(message.tool_call_id[1], content.value))

\* Mutant: a ThinkPart is stripped when its signature is falsy, the empty
\* string included.
RECURSIVE ContentBlocks_truthy(_)
ContentBlocks_truthy(content) ==
    IF content = <<>> THEN <<>>
    ELSE LET p == Head(content) IN
         (CASE p.type = "text" -> <<TextBlockParam(p.text)>>
            [] p.type = "image_url" -> <<ImageBlockParam>>
            [] p.type = "think" ->
                  IF ~Truthy(p.encrypted) THEN <<>>
                  ELSE <<ThinkingBlockParam(p.think, p.encrypted[1])>>
            [] OTHER -> <<>>)
         \o ContentBlocks_truthy(Tail(content))

\* message_to_anthropic, the loop over the content parts of a user or
\* assistant message: a ThinkPart without a signature is stripped.
RECURSIVE ContentBlocks(_)
ContentBlocks(content) ==
    IF content = <<>> THEN <<>>
    ELSE LET p == Head(content) IN
         (CASE p.type = "text" -> <<TextBlockParam(p.text)>>
            [] p.type = "image_url" -> <<ImageBlockParam>>
            [] p.type = "think" ->
                  IF p.encrypted = None THEN <<>>
                  ELSE <<ThinkingBlockParam(p.think, p.encrypted[1])>>
            [] OTHER -> <<>>)
         \o ContentBlocks(Tail(content))

\* message_to_anthropic, the loop over the tool calls.
RECURSIVE ToolUseBlocks(_)
ToolUseBlocks(calls) ==
    IF calls = <<>> THEN Ok(<<>>)
    ELSE LET c == Head(calls)
             loaded == IF Truthy(c.arguments) THEN json_loads(c.arguments[1])
                       ELSE [ok |-> TRUE, value |-> {}]
             rest == ToolUseBlocks(Tail(calls))
         IN  IF ~loaded.ok THEN Raise("Tool call arguments must be valid JSON.")
             ELSE IF ~rest.ok THEN rest
             ELSE Ok(<<ToolUseBlockParam(c.id, c.name, loaded.value)>> \o rest.value)

\* message_to_anthropic (messages of role user, assistant and tool).
message_to_anthropic(message) ==
    IF message.role = "tool"
    THEN LET block == _tool_result_message_to_block(message) IN
         IF ~block.ok THEN block ELSE Ok(MessageParam("user", <<block.value>>))
    ELSE LET uses == ToolUseBlocks(IF message.tool_calls = None THEN <<>>
                                   ELSE message.tool_calls[1])
         IN  IF ~uses.ok THEN uses
             ELSE Ok(MessageParam(message.role,
                                  ContentBlocks(message.content) \o uses.value))

\* Anthropic.generate, lines 125-127: one wire message per message of the
\* history, in order.
RECURSIVE Anthropic_messages(_)
Anthropic_messages(history) ==
    IF history = <<>> THEN Ok(<<>>)
    ELSE LET first == message_to_anthropic(Head(history)) IN
         IF ~first.ok THEN first
         ELSE LET rest == Anthropic_messages(Tail(history)) IN
              IF ~rest.ok THEN rest ELSE Ok(<<first.value>> \o rest.value)

\* Anthropic.generate, lines 128-138: the last block of the last message gets
\* an ephemeral cache_control if it has a cache_control key already.
inject_cache_control(messages) ==
    IF messages = <<>> THEN messages
    ELSE LET n == Len(messages)
             last_content == messages[n].content
             k == Len(last_content)
         IN  IF last_content # <<>> /\ last_content[k].cache_control # None
             THEN [messages EXCEPT ![n].content[k].cache_control = Some("ephemeral")]
             ELSE messages

\* Anthropic.generate, lines 114-124: the system prompt as a cached block.
Anthropic_system(system_prompt) ==
    IF system_prompt # ""
    THEN Some(<<[type |-> "text", text |-> system_prompt,
                 cache_control |-> Some("ephemeral")]>>)
    ELSE None

MaxHistory == 4

\* The messages of the histories encoded: a user text, an assistant text, an
\* assistant message whose only content is an unsigned ThinkPart, an
\* assistant message with two tool calls, the two tool results, and a tool
\* result with no tool_call_id.
HistoryUniverse ==
    { Message("user", <<TextPart("x")>>, None, None),
      Message("assistant", <<TextPart("y")>>, None, None),
      Message("assistant", <<ThinkPart("t", None)>>, None, None),
      Message("assistant", <<TextPart("y")>>,
              Some(<<ToolCall("1", "plus", Some("{a}")), ToolCall("2", "raise", Some(""))>>),
              None),
      Message("tool", <<TextPart("x")>>, None, Some("1")),
      Message("tool", <<TextPart("")>>, None, Some("2")),
      Message("tool", <<TextPart("x")>>, None, None) }

Histories == UNION {[1..n -> HistoryUniverse] : n \in 0..MaxHistory}

\* The contents of a single message: thinking without a signature, with an
\* empty one and with a real one, texts, one of them empty, and an image.
AnthropicPartUniverse ==
    { ThinkPart("t", None), ThinkPart("u", Some("s")), ThinkPart("v", Some("")),
      TextPart("x"), TextPart(""), ImageURLPart }

AnthropicContents == UNION {[1..n -> AnthropicPartUniverse] : n \in 0..MaxContent}

AnthropicToolCalls ==
    { None, Some(<<ToolCall("1", "plus", Some("{a}")), ToolCall("2", "raise", Some(""))>>) }

\* Any history of at most MaxHistory messages of the universe, or a user
\* message followed by one assistant message of any content, with or without
\* a system prompt.
InitAnthropic ==
    /\ NoStep
    /\ \E system_prompt \in {"", "sys"} :
          \/ \E history \in Histories : context = Context(system_prompt, history)
          \/ \E content \in AnthropicContents, calls \in AnthropicToolCalls :
                context = Context(system_prompt,
                                  << Message("user", <<TextPart("x")>>, None, None),
                                     Message("assistant", content, calls, None) >>)
    /\ provider = "anthropic"
    /\ request = None
    /\ sdk_error = None
    /\ surfaced = None
    /\ returned = <<>>
    /\ NoStorage

\* Anthropic.generate up to the SDK call: the payload is built, or
\* message_to_anthropic raises.
Anthropic_generate ==
    /\ pc = "chat_provider_generate"
    /\ provider = "anthropic"
    /\ LET messages == Anthropic_messages(context.history) IN
       IF messages.ok
       THEN /\ request' = Some([system |-> Anthropic_system(context.system_prompt),
                                messages |-> inject_cache_control(messages.value),
                                tools |-> context.tools])
            /\ pc' = "pull"
            /\ UNCHANGED <<outcome, surfaced>>
       ELSE /\ surfaced' = Some(messages.error)
            /\ outcome' = Raised(messages.error.class)
            /\ pc' = "done"
            /\ UNCHANGED request
    /\ UNCHANGED <<stream, message_parts, pos, part, pending_part, content_parts,
                   builder_tool_calls, delivered, stepVars, resVars, stream_closed,
                   context, provider, sdk_error, returned, storeVars>>

NextAnthropic == Anthropic_generate

SpecAnthropic == InitAnthropic /\ [][NextAnthropic]_vars

----------------------------------------------------------------------------
(* The OpenAI Responses adapter: encoding of the history *)

\* _content_parts_to_output_items: a TextPart with a non-empty text becomes an
\* output_text item, anything else is ignored.
RECURSIVE _content_parts_to_output_items(_)
_content_parts_to_output_items(parts) ==
    IF parts = <<>> THEN <<>>
    ELSE (IF Head(parts).type = "text" /\ Head(parts).text # ""
          THEN <<[type |-> "output_text", text |-> Head(parts).text]>>
          ELSE <<>>)
         \o _content_parts_to_output_items(Tail(parts))

\* _content_parts_to_input_items: texts and images.
RECURSIVE _content_parts_to_input_items(_)
_content_parts_to_input_items(parts) ==
    IF parts = <<>> THEN <<>>
    ELSE (CASE Head(parts).type = "text" /\ Head(parts).text # "" ->
                  <<[type |-> "input_text", text |-> Head(parts).text]>>
            [] Head(parts).type = "image_url" -> <<[type |-> "input_image"]>>
            [] OTHER -> <<>>)
         \o _content_parts_to_input_items(Tail(parts))

\* _content_parts_to_function_output_items: the same, for a tool's output.
RECURSIVE _content_parts_to_function_output_items(_)
_content_parts_to_function_output_items(parts) ==
    IF parts = <<>> THEN <<>>
    ELSE (CASE Head(parts).type = "text" /\ Head(parts).text # "" ->
                  <<[type |-> "input_text", text |-> Head(parts).text]>>
            [] Head(parts).type = "image_url" -> <<[type |-> "input_image"]>>
            [] OTHER -> <<>>)
         \o _content_parts_to_function_output_items(Tail(parts))

\* message_to_openai.flush_pending_parts: the message item appended for the
\* accumulated non-reasoning parts, if there are any.
flush_pending_parts(role, pending_parts) ==
    IF pending_parts = <<>> THEN <<>>
    ELSE <<[type |-> "message", role |-> role,
            content |-> IF role = "assistant"
                        THEN _content_parts_to_output_items(pending_parts)
                        ELSE _content_parts_to_input_items(pending_parts)]>>

\* Mutant: the inner loop stops at a part that is not a ThinkPart only, and
\* not at a change of `encrypted`.
RECURSIVE ReasoningGroup_any_encrypted(_, _)
ReasoningGroup_any_encrypted(content, encrypted_value) ==
    IF content = <<>> THEN <<>>
    ELSE IF Head(content).type # "think" THEN <<>>
    ELSE <<Head(content)>> \o ReasoningGroup_any_encrypted(Tail(content), encrypted_value)

\* message_to_openai, the inner while loop (lines 233-240): the ThinkParts at
\* the head of content whose encrypted equals encrypted_value.
RECURSIVE ReasoningGroup(_, _)
ReasoningGroup(content, encrypted_value) ==
    IF content = <<>> THEN <<>>
    ELSE IF Head(content).type # "think" THEN <<>>
    ELSE IF Head(content).encrypted # encrypted_value THEN <<>>
    ELSE <<Head(content)>> \o ReasoningGroup(Tail(content), encrypted_value)

\* message_to_openai, the outer while loop (lines 222-256) from the parts
\* content on, pending_parts being the non-reasoning parts accumulated.
RECURSIVE SplitContent(_, _, _)
SplitContent(role, content, pending_parts) ==
    IF content = <<>>
    THEN flush_pending_parts(role, pending_parts)
    ELSE IF Head(content).type = "think"
    THEN LET encrypted_value == Head(content).encrypted
             group == <<Head(content)>> \o ReasoningGroup(Tail(content), encrypted_value)
         IN  flush_pending_parts(role, pending_parts)
             \o <<[type |-> "reasoning",
                   summary |-> [k \in 1..Len(group) |-> group[k].think],
                   encrypted_content |-> encrypted_value]>>
             \o SplitContent(role, SubSeq(content, Len(group) + 1, Len(content)), <<>>)
    ELSE SplitContent(role, Tail(content), Append(pending_parts, Head(content)))

\* message_to_openai, lines 258-266: one function_call item per tool call.
FunctionCallItems(calls) ==
    [k \in 1..Len(calls) |->
        [type |-> "function_call", arguments |-> OrElse(calls[k].arguments, "{}"),
         call_id |-> calls[k].id, name |-> calls[k].name]]

\* message_to_openai
message_to_openai(message) ==
    IF message.role = "tool"
    THEN <<[type |-> "function_call_output",
            call_id |-> OrElse(message.tool_call_id, ""),
            output |-> _content_parts_to_function_output_items(message.content)]>>
    ELSE SplitContent(message.role, message.content, <<>>)
         \o FunctionCallItems(IF message.tool_calls = None THEN <<>>
                               ELSE message.tool_calls[1])

\* OpenAIResponses.generate, lines 102-103.
RECURSIVE OpenAIResponses_inputs(_)
OpenAIResponses_inputs(history) ==
    IF history = <<>> THEN <<>>
    ELSE message_to_openai(Head(history)) \o OpenAIResponses_inputs(Tail(history))

\* The content parts of the messages encoded: thinking without a signature,
\* with an empty one and with a real one, and texts, one of them empty.
ResponsesPartUniverse ==
    { ThinkPart("t", None), ThinkPart("u", None), ThinkPart("t", Some("e")),
      ThinkPart("v", Some("")), TextPart("x"), TextPart("") }

ResponsesContents == UNION {[1..n -> ResponsesPartUniverse] : n \in 0..MaxContent}

ResponsesToolCalls ==
    { None, Some(<<ToolCall("1", "plus", None)>>),
      Some(<<ToolCall("2", "raise", Some("{a}")), ToolCall("1", "plus", Some(""))>>) }

\* One assistant message of any such content and tool calls, or one tool
\* message, with or without a system prompt.
InitOpenAIResponses ==
    /\ NoStep
    /\ \E system_prompt \in {"", "sys"} :
          \/ \E content \in ResponsesContents, calls \in ResponsesToolCalls :
                context = Context(system_prompt,
                                  <<Message("assistant", content, calls, None)>>)
          \/ context = Context(system_prompt,
                               <<Message("tool", <<TextPart("x")>>, None, Some("1"))>>)
    /\ provider = "openai_responses"
    /\ request = None
    /\ sdk_error = None
    /\ surfaced = None
    /\ returned = <<>>
    /\ NoStorage

\* OpenAIResponses.generate up to the SDK call: the input items are built.
OpenAIResponses_generate ==
    /\ pc = "chat_provider_generate"
    /\ provider = "openai_responses"
    /\ request' = Some([input |-> (IF context.system_prompt # ""
                                   THEN <<[role |-> "system",
                                           content |-> context.system_prompt]>>
                                   ELSE <<>>)
                                  \o OpenAIResponses_inputs(context.history),
                        tools |-> context.tools])
    /\ pc' = "pull"
    /\ UNCHANGED <<stream, message_parts, pos, part, pending_part, content_parts,
                   builder_tool_calls, delivered, outcome, stepVars, resVars,
                   stream_closed, context, provider, sdk_error, surfaced, returned, storeVars>>

NextOpenAIResponses == OpenAIResponses_generate

SpecOpenAIResponses == InitOpenAIResponses /\ [][NextOpenAIResponses]_vars

----------------------------------------------------------------------------
(* Messages as JSON, and the JSONL storage *)

\* JSON documents: an object is a record that has exactly the object's keys,
\* an array a sequence, a string itself.  Where null may stand in place of a
\* string or an array, the value carries its JSON type.
JsonNull == [json |-> "null"]

JsonString(s) == [json |-> "string", value |-> s]

JsonArray(items) == [json |-> "array", value |-> items]

\* ContentPart.model_dump(), as Message._serialize_content calls it (nothing
\* is excluded): a ThinkPart without a signature has "encrypted": null.
ContentPart_model_dump(p) ==
    CASE p.type = "text" -> [type |-> "text", text |-> p.text]
      [] p.type = "think" ->
            [type |-> "think", think |-> p.think,
             encrypted |-> IF p.encrypted = None THEN JsonNull
                           ELSE JsonString(p.encrypted[1])]
      [] OTHER -> [type |-> p.type]

\* Message._serialize_content: no content is serialized as null.
_serialize_content(content) ==
    IF content = <<>> THEN JsonNull
    ELSE JsonArray([k \in 1..Len(content) |-> ContentPart_model_dump(content[k])])

\* ToolCall.model_dump(exclude_none=True): extras is None and left out, and
\* so is function.arguments when it is None.
ToolCall_model_dump(tool_call) ==
    [type |-> "function", id |-> tool_call.id,
     function |-> IF tool_call.arguments = None
                  THEN [name |-> tool_call.name]
                  ELSE [name |-> tool_call.name,
                        arguments |-> JsonString(tool_call.arguments[1])]]

\* Message.model_dump(exclude_none=True): name and partial are None and left
\* out, as are tool_calls and tool_call_id when they are None.  exclude_none
\* looks at the field's value, not at what its serializer returns, so the
\* content key stays when the content is empty.
Message_model_dump(message) ==
    [role |-> message.role, content |-> _serialize_content(message.content)]
    @@ (IF message.tool_calls = None THEN <<>>
        ELSE [tool_calls |-> [k \in 1..Len(message.tool_calls[1]) |->
                                 ToolCall_model_dump(message.tool_calls[1][k])]])
    @@ (IF message.tool_call_id = None THEN <<>>
        ELSE [tool_call_id |-> message.tool_call_id[1]])

\* A value, or the exception raised in its place.
Valid(value) == [ok |-> TRUE, value |-> value]

Invalid(class) == [ok |-> FALSE, error |-> class]

\* ContentPart.__content_part_registry: the type tags of the subclasses.
content_part_registry == {"text", "think", "image_url", "audio_url"}

\* ContentPart.__get_pydantic_core_schema__.validate_content_part on a JSON
\* object: the subclass is looked up in the registry by the type tag, a
\* KeyError for a tag that is not there, and validates the object.
validate_content_part(value) ==
    IF "type" \notin DOMAIN value
    THEN Invalid("ValueError")
    ELSE IF value.type \notin content_part_registry
    THEN Invalid("KeyError")
    ELSE CASE value.type = "text" ->
                 IF "text" \in DOMAIN value THEN Valid(TextPart(value.text))
                 ELSE Invalid("ValidationError")
           [] value.type = "think" ->
                 IF "think" \notin DOMAIN value THEN Invalid("ValidationError")
                 ELSE Valid(ThinkPart(value.think,
                                      IF "encrypted" \notin DOMAIN value
                                         \/ value.encrypted = JsonNull
                                      THEN None ELSE Some(value.encrypted.value)))
           [] OTHER -> Valid([type |-> value.type])

\* The validation of the content list: the first part that fails, fails it.
RECURSIVE validate_content(_)
validate_content(values) ==
    IF values = <<>> THEN Valid(<<>>)
    ELSE LET first == validate_content_part(Head(values)) IN
         IF ~first.ok THEN first
         ELSE LET rest == validate_content(Tail(values)) IN
              IF ~rest.ok THEN rest ELSE Valid(<<first.value>> \o rest.value)

\* ToolCall.model_validate: id, function.name and function.arguments are
\* required fields (arguments: str | None has no default).
ToolCall_model_validate(value) ==
    IF /\ "id" \in DOMAIN value
       /\ "function" \in DOMAIN value
       /\ "name" \in DOMAIN value.function
       /\ "arguments" \in DOMAIN value.function
    THEN Valid(ToolCall(value.id, value.function.name,
                        IF value.function.arguments = JsonNull THEN None
                        ELSE Some(value.function.arguments.value)))
    ELSE Invalid("ValidationError")

RECURSIVE validate_tool_calls(_)
validate_tool_calls(values) ==
    IF values = <<>> THEN Valid(<<>>)
    ELSE LET first == ToolCall_model_validate(Head(values)) IN
         IF ~first.ok THEN first
         ELSE LET rest == validate_tool_calls(Tail(values)) IN
              IF ~rest.ok THEN rest ELSE Valid(<<first.value>> \o rest.value)

\* Message.model_validate on a JSON object: Message.__init__ is called with
\* the object's keys (role and content are required keyword arguments),
\* _coerce_none_content turns a null content into no content, and the fields
\* are validated.
Message_model_validate(value) ==
    IF "role" \notin DOMAIN value \/ "content" \notin DOMAIN value
    THEN Invalid("TypeError")
    ELSE LET content == IF value.content = JsonNull THEN Valid(<<>>)
                        ELSE validate_content(value.content.value)
             calls == IF "tool_calls" \notin DOMAIN value THEN Valid(None)
                      ELSE LET v == validate_tool_calls(value.tool_calls) IN
                           IF v.ok THEN Valid(Some(v.value)) ELSE v
         IN  IF ~content.ok THEN content
             ELSE IF ~calls.ok THEN calls
             ELSE Valid(Message(value.role, content.value, calls.value,
                                IF "tool_call_id" \in DOMAIN value
                                THEN Some(value.tool_call_id) ELSE None))

\* JsonlLinearStorage.restore._restore from the line the storage is at: a
\* usage line sets the token count and is no message, any other line is
\* validated and appended; an exception ends the restore where it is raised.
RECURSIVE _restore(_, _)
_restore(lines, self) ==
    IF lines = <<>> THEN self
    ELSE LET line_json == Head(lines) IN
         IF "token_count" \in DOMAIN line_json
         THEN _restore(Tail(lines), [self EXCEPT !._token_count = Some(line_json.token_count)])
         ELSE LET message == Message_model_validate(line_json) IN
              IF ~message.ok
              THEN [self EXCEPT !.raised = Some(message.error)]
              ELSE _restore(Tail(lines),
                            [self EXCEPT !._messages = Append(@, message.value)])

\* The token_count property: `self._token_count or 0`.
token_count(self) == IF self._token_count = None THEN 0 ELSE self._token_count[1]

MaxLines == 3

\* The messages the storage is given: what a step produces (an assistant
\* message with content, with a signed and an unsigned ThinkPart, with tool
\* calls and no content, with a tool call that never got arguments) and the
\* user and tool messages around them.
StoredMessages ==
    { Message("user", <<TextPart("x")>>, None, None),
      Message("assistant", <<ThinkPart("t", None), ThinkPart("u", Some("e")), TextPart("y")>>,
              None, None),
      Message("assistant", <<>>, Some(<<ToolCall("1", "plus", Some("{a}"))>>), None),
      Message("assistant", <<TextPart("y")>>, Some(<<ToolCall("2", "raise", None)>>), None),
      Message("tool", <<TextPart("")>>, None, Some("1")) }

TokenCounts == {0, 5}

InitJsonl ==
    /\ NoStep
    /\ context = StepContext
    /\ provider = "mock"
    /\ request = None
    /\ sdk_error = None
    /\ surfaced = None
    /\ returned = <<>>
    /\ NoStorage

UnchangedStep ==
    UNCHANGED <<stream, genVars, stepVars, resVars, stream_closed, envVars, returned>>

\* JsonlLinearStorage.append_message: the message is appended to _messages
\* and its dump written, as one line, to the file opened for appending.
append_message ==
    /\ writer.alive
    /\ Len(jsonl) + (IF writer._file = None THEN 0 ELSE Len(writer._file[1])) < MaxLines
    /\ \E message \in StoredMessages :
          writer' = [writer EXCEPT
                        !._messages = Append(@, message),
                        !._file = Some((IF @ = None THEN <<>> ELSE @[1])
                                       \o <<Message_model_dump(message)>>)]
    /\ UNCHANGED <<jsonl, fresh>>
    /\ UnchangedStep

\* JsonlLinearStorage.mark_token_count
mark_token_count ==
    /\ writer.alive
    /\ Len(jsonl) + (IF writer._file = None THEN 0 ELSE Len(writer._file[1])) < MaxLines
    /\ \E count \in TokenCounts :
          writer' = [writer EXCEPT
                        !._token_count = Some(count),
                        !._file = Some((IF @ = None THEN <<>> ELSE @[1])
                                       \o <<[role |-> "_usage", token_count |-> count]>>)]
    /\ UNCHANGED <<jsonl, fresh>>
    /\ UnchangedStep

\* JsonlLinearStorage.__del__: the file, if one was opened, is closed, and
\* what was written reaches the disk.
JsonlLinearStorage_del ==
    /\ writer.alive
    /\ writer' = [writer EXCEPT !.alive = FALSE, !._file = None]
    /\ jsonl' = jsonl \o (IF writer._file = None THEN <<>> ELSE writer._file[1])
    /\ UNCHANGED fresh
    /\ UnchangedStep

\* JsonlLinearStorage.restore on a new storage of the same path.
restore ==
    /\ fresh' = Some(_restore(jsonl, [_messages |-> <<>>, _token_count |-> None,
                                      raised |-> None]))
    /\ fresh' # fresh
    /\ UNCHANGED <<jsonl, writer>>
    /\ UnchangedStep

NextJsonl == append_message \/ mark_token_count \/ JsonlLinearStorage_del \/ restore

SpecJsonl == InitJsonl /\ [][NextJsonl]_vars

\* A file another writer left: one message line whose content may hold
\* parts of a variant that is not registered.
ForeignParts ==
    { [type |-> "text", text |-> "x"],
      [type |-> "think", think |-> "t", encrypted |-> JsonNull],
      [type |-> "think", think |-> "u", encrypted |-> JsonString("e")],
      [type |-> "video_url", video_url |-> "v"],
      [type |-> "citation", text |-> "c"] }

ForeignContents == UNION {[1..n -> ForeignParts] : n \in 1..MaxContent}

InitForeignJsonl ==
    /\ NoStep
    /\ context = StepContext
    /\ provider = "mock"
    /\ request = None
    /\ sdk_error = None
    /\ surfaced = None
    /\ returned = <<>>
    /\ \E role \in {"user", "assistant"}, content \in ForeignContents :
          jsonl = <<[role |-> role, content |-> JsonArray(content)]>>
    /\ writer = [JsonlLinearStorage EXCEPT !.alive = FALSE]
    /\ fresh = None

NextForeignJsonl == restore

SpecForeignJsonl == InitForeignJsonl /\ [][NextForeignJsonl]_vars

----------------------------------------------------------------------------
(* Callbacks that raise *)

\* on_message_part raises: the exception leaves `await callback(...)`, the
\* `async for` and generate, then step.  Nothing on that path closes the
\* provider's stream: the loop is not inside a try/finally or a context
\* manager, so the generator stays suspended at its yield.
OnMessagePartRaises ==
    /\ pc = "on_message_part"
    /\ delivered' = Append(delivered, message_parts[part])
    /\ pc' = "done"
    /\ outcome' = Raised("CallbackError")
    /\ UNCHANGED <<stream, message_parts, pos, part, pending_part, content_parts,
                   builder_tool_calls, stepVars, resVars, stream_closed, envVars, returned, storeVars>>

\* on_tool_call raises, mid-stream (line 96) or at end of message (line 103),
\* after builder.append(pending_part).
OnToolCallRaises ==
    /\ pending_part # 0
    /\ IsToolCall(message_parts[pending_part])
    /\ \/ pc = "end"
       \/ /\ pc = "merge"
          /\ ~merge_in_place(message_parts[pending_part], message_parts[part]).ok
    /\ builder_tool_calls' = Append(builder_tool_calls, pending_part)
    /\ pc' = "done"
    /\ outcome' = Raised("CallbackError")
    /\ UNCHANGED <<stream, message_parts, pos, part, pending_part, content_parts,
                   delivered, stepVars, resVars, stream_closed, envVars, returned, storeVars>>

NextCallbackRaises ==
    \/ Next
    \/ OnMessagePartRaises
    \/ OnToolCallRaises

SpecCallbackRaises == Init /\ [][NextCallbackRaises]_vars

SpecReasoning == InitReasoning /\ [][Next]_vars

----------------------------------------------------------------------------
(* What the stream alone determines: used to state the claims *)

\* The last index of the maximal run of ToolCallParts that follows index i.
RECURSIVE RunEnd(_)
RunEnd(i) ==
    IF i < Len(stream) /\ IsToolCallPart(stream[i + 1]) THEN RunEnd(i + 1) ELSE i

\* The pieces of the argument string of the ToolCall at index i: its own
\* arguments, then the fragments of the ToolCallParts that follow it.
Piece(j) == IF IsToolCall(stream[j]) THEN stream[j].arguments ELSE stream[j].arguments_part

\* Pieces i..j joined in arrival order, a null piece contributing nothing.
RECURSIVE Joined(_, _)
Joined(i, j) ==
    IF i > j THEN ""
    ELSE (IF Piece(i) = None THEN "" ELSE Piece(i)[1]) \o Joined(i + 1, j)

AllPiecesNull(i, j) == \A n \in i..j : Piece(n) = None

ToolCallIndexes == {i \in 1..Len(stream) : IsToolCall(stream[i])}

\* The rank of the ToolCall at index i among the ToolCalls of the stream.
Rank(i) == Cardinality({j \in ToolCallIndexes : j <= i})

\* message.tool_calls as a list (null read as the empty list).
MessageToolCalls ==
    IF outcome.message.tool_calls = None THEN <<>> ELSE outcome.message.tool_calls[1]

\* The texts of the maximal runs of adjacent TextParts of stream[i..], each
\* run joined in arrival order; acc is the run in progress (an option).
RECURSIVE TextRuns(_, _)
TextRuns(i, acc) ==
    IF i > Len(stream)
    THEN (IF acc = None THEN <<>> ELSE <<acc[1]>>)
    ELSE IF stream[i].type = "text"
    THEN TextRuns(i + 1, Some((IF acc = None THEN "" ELSE acc[1]) \o stream[i].text))
    ELSE (IF acc = None THEN <<>> ELSE <<acc[1]>>) \o TextRuns(i + 1, None)

RECURSIVE TextsOf(_)
TextsOf(content) ==
    IF content = <<>> THEN <<>>
    ELSE (IF Head(content).type = "text" THEN <<Head(content).text>> ELSE <<>>)
             \o TextsOf(Tail(content))

----------------------------------------------------------------------------
(* Claims *)

C2_Holds(expected(_)) ==
    outcome.kind = "returned" =>
        /\ Len(MessageToolCalls) = Cardinality(ToolCallIndexes)
        /\ \A i \in ToolCallIndexes :
              MessageToolCalls[Rank(i)].arguments = expected(i)

\* C2 as stated: the merged ToolCall's arguments are the string s that was
\* split over the ToolCall and the ToolCallParts after it.
C2_Original ==
    LET expected(i) == Some(Joined(i, RunEnd(i))) IN C2_Holds(expected)

\* C2 amended: the merged arguments are s, the non-null pieces joined in
\* arrival order, except that they stay null when every piece is null.
C2_ToolCallAssembly ==
    LET expected(i) == IF AllPiecesNull(i, RunEnd(i)) THEN None
                       ELSE Some(Joined(i, RunEnd(i)))
    IN  C2_Holds(expected)

\* C2 witness: "{a}" assembled from a ToolCall and two fragments, one of them
\* null or empty.
C2_Witness ==
    /\ outcome.kind = "returned"
    /\ Len(stream) = 3
    /\ IsToolCall(stream[1])
    /\ RunEnd(1) = 3
    /\ \E j \in 2..3 : stream[j].arguments_part \in {None, Some("")}
    /\ MessageToolCalls[1].arguments = Some("{a}")

\* C3: every maximal run of adjacent TextParts of the stream is exactly one
\* TextPart of the returned message, its text the run's texts joined in
\* arrival order; a stream of TextParts only gives a content of length one.
C3_TextRunsCollapse ==
    outcome.kind = "returned" =>
        /\ TextsOf(outcome.message.content) = TextRuns(1, None)
        /\ (\A i \in 1..Len(stream) : stream[i].type = "text")
              => Len(outcome.message.content) = 1

\* C3 witness: three TextParts have been merged into one.
C3_Witness ==
    /\ outcome.kind = "returned"
    /\ Len(stream) = 3
    /\ \A i \in 1..3 : stream[i].type = "text"
    /\ stream[1].text = "x" /\ stream[2].text = "y"
    /\ Len(outcome.message.content) = 1

\* C4: generate raises APIEmptyResponseError exactly when the builder holds
\* no content part and no tool call, that is exactly when the stream is empty
\* or made of orphaned ToolCallParts only; any content part (even an empty
\* text) or ToolCall makes it return a message.
C4_EmptyDetection ==
    (pc = "done" /\ outcome # Raised("ChatProviderError")) =>
        /\ outcome.kind \in {"returned", "raised"}
        /\ (outcome = Raised("APIEmptyResponseError")) <=> is_empty
        /\ (outcome = Raised("APIEmptyResponseError"))
              <=> (\A i \in 1..Len(stream) : IsToolCallPart(stream[i]))
        /\ outcome.kind = "returned" =>
              (outcome.message.content # <<>> \/ outcome.message.tool_calls # None)

\* C4 witness: a stream of orphaned ToolCallParts has raised, and (second
\* conjunct of the claim) is distinguished from the empty stream.
C4_Witness ==
    /\ outcome = Raised("APIEmptyResponseError")
    /\ Len(stream) >= 2

\* C4 witness: a single TextPart with empty text makes generate return.
C4_WitnessEmptyText ==
    /\ outcome.kind = "returned"
    /\ stream = <<TextPart("")>>

\* The ToolCall at index i with every fragment of its run merged in.
Completed(i) ==
    [stream[i] EXCEPT !.arguments = IF AllPiecesNull(i, RunEnd(i)) THEN None
                                    ELSE Some(Joined(i, RunEnd(i)))]

\* What C5 says of every on_tool_call but for the place of on_message_part:
\* the call is complete when the callback starts and never changes afterwards,
\* the callback fires while the call is still the pending part, and no part
\* beyond the one that ended the call's run has been pulled.
C5_CompleteAndStillPending ==
    \A k \in 1..Len(fired) :
        LET f == fired[k] IN
        /\ message_parts[f.call] = Completed(f.call)
        /\ f.pending = f.call
        /\ f.pulled = IF RunEnd(f.call) < Len(stream)
                      THEN RunEnd(f.call) + 1
                      ELSE RunEnd(f.call)

\* C5 as stated: on_tool_call(c) fires after c is complete and before the next
\* incompatible part is delivered to on_message_part or buffered.
C5_Original ==
    /\ C5_CompleteAndStillPending
    /\ \A k \in 1..Len(fired) : fired[k].delivered <= RunEnd(fired[k].call)

\* C5 amended: on_tool_call(c) fires after the last fragment has been merged
\* into c (c never changes afterwards) and before the next incompatible part
\* is buffered as the pending part, but after that part has been delivered to
\* on_message_part: every part pulled so far has been delivered.
C5_ToolCallFiresWhenComplete ==
    /\ C5_CompleteAndStillPending
    /\ \A k \in 1..Len(fired) : fired[k].delivered = fired[k].pulled

\* C5 witness: a ToolCall with a fragment after it was ended by an
\* incompatible part, which is now the pending part.
C5_Witness ==
    /\ Len(fired) = 1
    /\ fired[1].call = 1
    /\ RunEnd(1) = 2
    /\ stream[2].arguments_part = Some("a}")
    /\ pending_part = 3

\* C6: on_tool_call is invoked once for each ToolCall of the returned message
\* and for nothing else: the calls it received are message.tool_calls, in
\* order and complete, the ToolCall that ends the stream included, and
\* StepResult.tool_calls is that same sequence.
C6_OneCallbackPerToolCall ==
    outcome.kind = "returned" =>
        /\ Len(fired) = Len(MessageToolCalls)
        /\ \A k \in 1..Len(fired) : message_parts[fired[k].call] = MessageToolCalls[k]
        /\ outcome.tool_calls = MessageToolCalls
        /\ Len(fired) = Cardinality(ToolCallIndexes)
        /\ \A i \in ToolCallIndexes :
              /\ fired[Rank(i)].call = i
              /\ MessageToolCalls[Rank(i)] = Completed(i)

\* C6 witness: two ToolCalls, the second one flushed at end-of-stream.
C6_Witness ==
    /\ outcome.kind = "returned"
    /\ Len(stream) = 3
    /\ IsToolCall(stream[3])
    /\ Len(MessageToolCalls) = 2
    /\ fired[2].call = 3

C8_CancelledFuturesResolve ==
    \A k \in 1..Len(dispatches) :
        dispatches[k].task = "cancelled" => dispatches[k].future # None

\* The class of result C9 states for a tool call, by the first failing check.
Classify(tool_call) ==
    LET text == IF tool_call.arguments \in {None, Some("")} THEN "{}"
                ELSE tool_call.arguments[1]
        keys == IF text = "{a}" THEN {"a"} ELSE {}
    IN  IF tool_call.name \notin {"plus", "raise"} THEN "ToolNotFoundError"
        ELSE IF text \notin {"{}", "{a}"} THEN "ToolParseError"
        ELSE IF ~(tool_dict[tool_call.name].required \subseteq keys) THEN "ToolValidateError"
        ELSE IF tool_dict[tool_call.name].raises THEN "ToolRuntimeError"
        ELSE "ToolOk"

\* C9: handle classifies each call by the first failing check (unknown name,
\* then unparsable arguments, then schema violation, then the callable
\* raising), reads absent or empty arguments as {}, and delivers every outcome
\* as a ToolResult value: the first three at once, the others when the
\* callable has finished.
C9_ErrorClassification ==
    \A k \in 1..Len(dispatches) :
        LET d == dispatches[k]
            c == message_parts[d.call]
            early == Classify(c) \in {"ToolNotFoundError", "ToolParseError",
                                      "ToolValidateError"}
        IN  /\ early <=> d.task = "none"
            /\ d.task \in {"none", "done"} =>
                  /\ d.future # None
                  /\ d.future[1].tool_call_id = c.id
                  /\ d.future[1].result.class = Classify(c)
            /\ d.task # "failed"

\* C9 witness: an unknown tool with malformed arguments was answered
\* ToolNotFoundError, and a call with empty arguments reached its callable.
C9_Witness ==
    /\ \E k \in 1..Len(dispatches) :
          /\ message_parts[dispatches[k].call] = ToolCall("2", "not_found", Some("{"))
          /\ dispatches[k].future[1].result.class = "ToolNotFoundError"
    /\ \E k \in 1..Len(dispatches) :
          /\ message_parts[dispatches[k].call].arguments = Some("")
          /\ dispatches[k].task = "done"
          /\ dispatches[k].future[1].result.class = "ToolRuntimeError"

\* The message the merge rules give for stream[i..], whatever the tools do:
\* pend is the pending part (an option), acc the parts flushed so far.
RECURSIVE MergedFrom(_, _, _)
MergedFrom(i, pend, acc) ==
    IF i > Len(stream)
    THEN acc \o pend
    ELSE IF pend = None
    THEN MergedFrom(i + 1, Some(stream[i]), acc)
    ELSE LET m == merge_in_place(pend[1], stream[i]) IN
         IF m.ok
         THEN MergedFrom(i + 1, Some(m.self), acc)
         ELSE MergedFrom(i + 1, Some(stream[i]), acc \o pend)

C10_Content == SelectSeq(MergedFrom(1, None, <<>>), IsContentPart)

C10_ToolCalls == SelectSeq(MergedFrom(1, None, <<>>), IsToolCall)

C11_StepDoesNotMutateContext ==
    /\ Len(context.history) = Len(StepContext.history)
    /\ \A i \in 1..Len(StepContext.history) : context.history[i] = StepContext.history[i]
    /\ context.system_prompt = StepContext.system_prompt
    /\ context.tools = tools

\* C11 witness: step has returned a message with a tool call, the tool's
\* result has been delivered and tool_results() has returned it.
C11_Witness ==
    /\ outcome.kind = "returned"
    /\ outcome.message.tool_calls # None
    /\ rpc = "returned"
    /\ Len(results) >= 1
    /\ context = StepContext

\* What C12 says of the step in which generate handles a ThinkPart that arrives
\* while a ThinkPart is pending, and of every step for a sealed ThinkPart;
\* unset(e) tells whether the value e of `encrypted` counts as unset.
C12_Step(unset(_)) ==
    /\ (/\ pc = "merge" /\ pc' # "merge" /\ pending_part # 0
        /\ message_parts[pending_part].type = "think"
        /\ message_parts[part].type = "think")
       => LET p == message_parts[pending_part]
              o == message_parts[part]
          IN  IF unset(p.encrypted)
              THEN /\ pending_part' = pending_part
                   /\ content_parts' = content_parts
                   /\ message_parts'[pending_part] =
                         ThinkPart(p.think \o o.think,
                                   IF unset(o.encrypted) THEN p.encrypted ELSE o.encrypted)
              ELSE /\ content_parts' = Append(content_parts, pending_part)
                   /\ message_parts' = message_parts
    /\ \A i \in 1..Len(message_parts) :
          (message_parts[i].type = "think" /\ ~unset(message_parts[i].encrypted))
              => message_parts'[i] = message_parts[i]

\* C12 as stated, `encrypted` being set when it is not null.
C12_Original ==
    [][LET unset(e) == e = None IN C12_Step(unset)]_vars

\* C12 amended: an incoming ThinkPart merges into the pending ThinkPart only
\* while the pending part's encrypted is null or the empty string: the think
\* texts concatenate and the incoming encrypted is adopted if it is a non-empty
\* string.  Once the pending part holds a non-empty encrypted it is sealed:
\* every later ThinkPart starts a new content part and the sealed part's think
\* and encrypted never change again.
C12_ThinkPartSealing ==
    [][LET unset(e) == ~Truthy(e) IN C12_Step(unset)]_vars

\* C12 witness: a pending ThinkPart was sealed by a merged signature, and the
\* ThinkPart after it has started a new content part.
C12_Witness ==
    /\ Len(stream) = 3
    /\ stream[1] = ThinkPart("t", None)
    /\ message_parts[1] = ThinkPart("t", Some("e"))
    /\ content_parts = <<1>>
    /\ pending_part = 3
    /\ message_parts[3].type = "think"

\* The part at index i is absorbed by the part before it: a text after a text,
\* or a think after a think that holds no signature.
Absorbed(i) ==
    /\ i > 1
    /\ \/ stream[i].type = "text" /\ stream[i - 1].type = "text"
       \/ /\ stream[i].type = "think" /\ stream[i - 1].type = "think"
          /\ ~Truthy(stream[i - 1].encrypted)

\* The indices at which a content part of the message starts.
FirstFragments == {i \in 1..Len(stream) : IsContentPart(stream[i]) /\ ~Absorbed(i)}

StrictlyIncreasing(refs) == \A k, l \in 1..Len(refs) : k < l => refs[k] < refs[l]

\* C13: the returned message preserves stream order.  Its content parts are
\* the content parts of the stream that were not absorbed by a neighbour, one
\* each, in the order of their first fragments; its tool_calls are the
\* ToolCalls of the stream in first-seen order; nothing is out of order,
\* twice or missing.  The role is "assistant", and tool_calls is null exactly
\* when the stream holds no ToolCall.
C13_StreamOrderPreserved ==
    /\ StrictlyIncreasing(content_parts)
    /\ StrictlyIncreasing(builder_tool_calls)
    /\ outcome.kind = "returned" =>
          LET m == outcome.message IN
          /\ m.role = "assistant"
          /\ {content_parts[k] : k \in 1..Len(content_parts)} = FirstFragments
          /\ Len(m.content) = Len(content_parts)
          /\ \A k \in 1..Len(m.content) :
                m.content[k].type = stream[content_parts[k]].type
          /\ {builder_tool_calls[k] : k \in 1..Len(builder_tool_calls)} = ToolCallIndexes
          /\ Len(MessageToolCalls) = Len(builder_tool_calls)
          /\ \A k \in 1..Len(MessageToolCalls) :
                /\ MessageToolCalls[k].id = stream[builder_tool_calls[k]].id
                /\ MessageToolCalls[k].name = stream[builder_tool_calls[k]].name
          /\ (m.tool_calls = None) <=> (ToolCallIndexes = {})

\* C13 witness: a message whose two content parts were separated in the stream
\* by a ToolCall.
C13_Witness ==
    /\ outcome.kind = "returned"
    /\ content_parts = <<1, 3>>
    /\ builder_tool_calls = <<2>>
    /\ outcome.message.content[1].type # outcome.message.content[2].type

\* The value now held by the object that the k-th on_message_part was handed.
Held(k) ==
    IF model_copy(k) = 0 THEN delivered[k] ELSE message_parts[model_copy(k)]

\* C14: on_message_part receives every part the provider yields, once each, in
\* stream order, with the value it had when it was yielded: what has been
\* delivered is the stream up to the part last pulled, and all of it when
\* generate returns.  A merge made later does not change an object already
\* delivered, and whatever the callback writes to the object it was handed,
\* the returned message is what the stream alone determines.
C14_RawPartsDelivered ==
    /\ Len(delivered) = IF pc = "on_message_part" THEN pos - 1 ELSE pos
    /\ \A k \in 1..Len(delivered) :
          /\ delivered[k] = stream[k]
          /\ Held(k) = stream[k]
    /\ outcome.kind = "returned" =>
          /\ delivered = stream
          /\ outcome.message.content = C10_Content
          /\ MessageToolCalls = C10_ToolCalls

\* C14 witness: three parts were delivered as the provider yielded them,
\* although the first has since been changed by two merges.
C14_Witness ==
    /\ outcome.kind = "returned"
    /\ Len(stream) = 3
    /\ delivered = stream
    /\ message_parts[1] # stream[1]
    /\ Len(outcome.message.content) + Len(MessageToolCalls) = 1
    /\ stream[2] # stream[3]

\* C15: tool execution is launched mid-stream.  For a ToolCall at index i whose
\* run of fragments is followed by an incompatible part, at index j, handle has
\* been invoked (its task created or its result set) once the step for part j
\* has flushed, with j the last part pulled: before any later part is pulled
\* and before end-of-stream.  No call is dispatched before its run is over,
\* and only the ToolCall whose run ends the stream waits for end-of-stream.
C15_LaunchedMidStream ==
    \A i \in ToolCallIndexes :
        LET j == RunEnd(i) + 1
            seen == /\ j <= Len(stream)
                    /\ \/ pos > j
                       \/ pos = j /\ pc \notin {"on_message_part", "merge"}
            ended == j > Len(stream) /\ pc \in {"finish", "done"}
                     /\ outcome # Raised("ChatProviderError")
            launches == {k \in 1..Len(dispatches) : dispatches[k].call = i}
        IN  /\ seen => /\ Cardinality(launches) = 1
                       /\ \A k \in launches :
                             /\ fired[k].pulled = j
                             /\ dispatches[k].task # "none" \/ dispatches[k].future # None
            /\ ended => Cardinality(launches) = 1
            /\ ~seen /\ ~ended => launches = {}

\* C15 witness: the tool of the first call has run to completion while the
\* provider still has a part to yield.
C15_Witness ==
    /\ Len(stream) = 3
    /\ pos = 2
    /\ pc = "pull"
    /\ ~stream_closed
    /\ Len(dispatches) = 1
    /\ dispatches[1].call = 1
    /\ dispatches[1].task = "done"

\* One step of the generate coroutine (of the merger).
GenerateStep ==
    \/ Pull \/ EndOfStream \/ OnMessagePart \/ BufferFirst \/ MergeIntoPending
    \/ FlushPending \/ Rebuffer \/ FlushAtEnd \/ Finish

\* C16, as a state predicate: the tasks were created in on_tool_call order;
\* whatever tools have not completed, the merger can take its next step and
\* every running tool can complete, the later before the earlier.
C16_NothingWaits ==
    /\ Len(dispatches) = Len(tool_calls)
    /\ \A k \in 1..Len(dispatches) :
          /\ dispatches[k].call = tool_calls[k]
          /\ \A l \in 1..Len(dispatches) : k < l => fired[k].pulled <= fired[l].pulled
          /\ dispatches[k].task = "running" => ENABLED TaskDone(k)
    /\ pc # "done" => ENABLED GenerateStep

\* C16, as a step predicate: the step that hands a call with a known tool and
\* valid arguments to handle ends with the tool's task created and not yet
\* completed: handle has returned without the callable's result.
C16_HandleReturnsFirst ==
    Len(dispatches') = Len(dispatches) + 1 =>
        LET d == dispatches'[Len(dispatches')] IN
        Classify(message_parts[d.call]) \in {"ToolOk", "ToolRuntimeError"} =>
            /\ d.task = "running"
            /\ d.future = None
            /\ tool_result_log' = tool_result_log

\* C16: handle never blocks and tool tasks run concurrently.  handle returns
\* before the tool's callable has completed, tasks are created in on_tool_call
\* order, and a tool that has not completed stops neither the merger from
\* consuming further parts nor a later tool from completing first.
C16_HandleNeverBlocks ==
    []C16_NothingWaits /\ [][C16_HandleReturnsFirst]_vars

\* C16 witness: the second tool has completed while the first is still
\* running, and the merger has gone on to the end of the stream meanwhile.
C16_Witness ==
    /\ Len(dispatches) = 2
    /\ dispatches[1].task = "running"
    /\ dispatches[2].task = "done"
    /\ fired[1].pulled < fired[2].pulled
    /\ outcome.kind = "returned"

\* The first half of C17: a callback's exception is what step raises, and the
\* run is over: generate is at its end, having pulled no part beyond the one
\* in hand and called no callback since (every dispatch predates the raise).
C17_Aborted ==
    outcome = Raised("CallbackError") =>
        /\ pc = "done"
        /\ Len(delivered) = pos
        /\ Len(fired) = Len(tool_calls)
        /\ rpc = "idle"

\* C17: an exception raised by on_message_part or on_tool_call propagates out
\* of generate and step and aborts it (no message, no further part, no further
\* callback), and the provider's stream has been closed on that path.
C17_CallbackErrorClosesStream ==
    /\ C17_Aborted
    /\ outcome = Raised("CallbackError") => stream_closed

\* The SDK's exception reports a timeout.
IsTimeout(error) == isinstance(error, "APITimeoutError") \/ isinstance(error, "TimeoutError")

\* C18: a timeout reported by a provider's SDK, when the request is made or
\* while the response is read, leaves the adapter as APITimeoutError, for
\* every adapter, and not as APIConnectionError, APIStatusError or the plain
\* ChatProviderError.
C18_TimeoutSurfacesAsTimeout ==
    (sdk_error # None /\ IsTimeout(sdk_error[1])) =>
        surfaced = Some(APITimeoutError(surfaced[1].message))

\* The tool-role messages of the history, and where the runs of them start.
ToolMessages == {i \in 1..Len(context.history) : context.history[i].role = "tool"}

ToolRunStarts == {i \in ToolMessages : (i - 1) \notin ToolMessages}

\* The position, in the batched encoding, of the wire message that carries
\* history message i.
WireIndex(i) ==
    Cardinality({j \in 1..i : j \notin ToolMessages}) +
    Cardinality({j \in ToolRunStarts : j <= i})

\* The start of the run of tool messages that holds the tool message i.
ToolRunStart(i) == CHOOSE s \in ToolRunStarts : s <= i /\ \A j \in s..i : j \in ToolMessages

\* C19: the Anthropic encoding batches tool results.  Every maximal run of
\* consecutive tool-role messages of the history is one wire message of role
\* user that holds one tool_result block per tool message, in history order;
\* every other message is one wire message.  The history [user, assistant
\* with two tool calls, tool, tool] is encoded as three wire messages.
C19_ToolResultsBatched ==
    request # None =>
        LET wire == request[1].messages
            history == context.history
        IN  /\ Len(wire) = WireIndex(Len(history))
            /\ \A i \in ToolMessages :
                  LET w == wire[WireIndex(i)] IN
                  /\ w.role = "user"
                  /\ Len(w.content) >= i - ToolRunStart(i) + 1
                  /\ w.content[i - ToolRunStart(i) + 1].type = "tool_result"
                  /\ w.content[i - ToolRunStart(i) + 1].tool_use_id =
                         history[i].tool_call_id[1]
            /\ (/\ Len(history) = 4
                /\ history[1].role = "user" /\ history[2].role = "assistant"
                /\ history[3].role = "tool" /\ history[4].role = "tool")
               => Len(wire) = 3

\* What the adapter does instead: one wire message per message of the
\* history, a tool message being a user message with a single tool_result.
C19_OneWireMessagePerMessage ==
    request # None =>
        LET wire == request[1].messages IN
        /\ Len(wire) = Len(context.history)
        /\ \A i \in ToolMessages :
              /\ wire[i].role = "user"
              /\ Len(wire[i].content) = 1
              /\ wire[i].content[1].tool_use_id = context.history[i].tool_call_id[1]

\* The items the request holds for the (only) message of the history.
MessageItems ==
    LET input == request[1].input
        skip == IF context.system_prompt # "" THEN 1 ELSE 0
    IN  SubSeq(input, skip + 1, Len(input))

IsReasoningItem(item) == item.type = "reasoning"

\* Where the maximal runs of contiguous ThinkParts of equal `encrypted` start
\* in a content, and where the run that starts at s ends.
ThinkRunStarts(content) ==
    {i \in 1..Len(content) :
        /\ content[i].type = "think"
        /\ \/ i = 1
           \/ content[i - 1].type # "think"
           \/ content[i - 1].encrypted # content[i].encrypted}

RECURSIVE ThinkRunEnd(_, _)
ThinkRunEnd(content, i) ==
    IF /\ i < Len(content)
       /\ content[i + 1].type = "think"
       /\ content[i + 1].encrypted = content[i].encrypted
    THEN ThinkRunEnd(content, i + 1)
    ELSE i

\* The texts of a content, in order and tagged by kind: the think of every
\* ThinkPart and the text of every TextPart that has one.
RECURSIVE TaggedTexts(_)
TaggedTexts(content) ==
    IF content = <<>> THEN <<>>
    ELSE (CASE Head(content).type = "think" -> <<<<"reasoning", Head(content).think>>>>
            [] Head(content).type = "text" /\ Head(content).text # "" ->
                  <<<<"message", Head(content).text>>>>
            [] OTHER -> <<>>)
         \o TaggedTexts(Tail(content))

\* The same of a list of items: the summary texts of a reasoning item, the
\* texts of a message item.
RECURSIVE TaggedItemTexts(_)
TaggedItemTexts(items) ==
    IF items = <<>> THEN <<>>
    ELSE (CASE Head(items).type = "reasoning" ->
                  [k \in 1..Len(Head(items).summary) |->
                      <<"reasoning", Head(items).summary[k]>>]
            [] Head(items).type = "message" ->
                  [k \in 1..Len(Head(items).content) |->
                      <<"message", Head(items).content[k].text>>]
            [] OTHER -> <<>>)
         \o TaggedItemTexts(Tail(items))

\* C20: the OpenAI Responses encoding of an assistant message groups its
\* reasoning.  Every maximal run of contiguous ThinkParts of equal `encrypted`
\* is one reasoning item, whose summary is the run's texts in order and whose
\* encrypted_content is that value; a change of `encrypted` or a part that is
\* not a ThinkPart starts a new item; the items are in the order of the
\* content, and the function_call items come after all of them.
C20_ReasoningGrouped ==
    (request # None /\ context.history[1].role = "assistant") =>
        LET message == context.history[1]
            content == message.content
            calls == IF message.tool_calls = None THEN <<>> ELSE message.tool_calls[1]
            items == MessageItems
            reasoning == SelectSeq(items, IsReasoningItem)
            starts == ThinkRunStarts(content)
            before == Len(items) - Len(calls)
        IN  /\ Len(reasoning) = Cardinality(starts)
            /\ \A s \in starts :
                  LET item == reasoning[Cardinality({r \in starts : r <= s})]
                      e == ThinkRunEnd(content, s)
                  IN  /\ item.encrypted_content = content[s].encrypted
                      /\ item.summary = [k \in 1..(e - s + 1) |-> content[s + k - 1].think]
            /\ TaggedItemTexts(items) = TaggedTexts(content)
            /\ before >= 0
            /\ \A k \in 1..Len(items) :
                  IF k <= before
                  THEN items[k].type \in {"reasoning", "message"}
                  ELSE /\ items[k].type = "function_call"
                       /\ items[k].call_id = calls[k - before].id

\* C20 witness: two unsigned ThinkParts, a signed one and a text, with a tool
\* call, were encoded as two reasoning items, a message and a function_call.
C20_Witness ==
    /\ request # None
    /\ context.history[1].role = "assistant"
    /\ Len(context.history[1].content) = 4
    /\ context.history[1].content[1] = ThinkPart("t", None)
    /\ context.history[1].content[2] = ThinkPart("u", None)
    /\ context.history[1].content[3] = ThinkPart("t", Some("e"))
    /\ Len(MessageItems) = 4
    /\ MessageItems[1].summary = <<"t", "u">>
    /\ MessageItems[2].encrypted_content = Some("e")
    /\ MessageItems[4].type = "function_call"

\* What a history message holds that message_to_anthropic turns into a
\* block: whether message i encodes to a content block at all.
EncodesToABlock(message) ==
    \/ message.role = "tool"
    \/ message.tool_calls # None /\ message.tool_calls[1] # <<>>
    \/ \E k \in 1..Len(message.content) :
          \/ message.content[k].type \in {"text", "image_url"}
          \/ message.content[k].type = "think" /\ message.content[k].encrypted # None

NonEmptyMessages == {i \in 1..Len(context.history) : EncodesToABlock(context.history[i])}

\* C21: the Anthropic encoding skips empty messages.  A message of the
\* history that encodes to no content block gives no wire message, and the
\* wire messages are those of the other messages, in the order of the history.
C21_EmptyMessagesSkipped ==
    request # None =>
        LET wire == request[1].messages IN
        /\ Len(wire) = Cardinality(NonEmptyMessages)
        /\ \A w \in 1..Len(wire) : wire[w].content # <<>>
        /\ \A i \in NonEmptyMessages :
              LET w == Cardinality({j \in NonEmptyMessages : j <= i}) IN
              w <= Len(wire) =>
                  wire[w].role = (IF context.history[i].role = "tool" THEN "user"
                                  ELSE context.history[i].role)

\* What the adapter does instead: the message whose content is all stripped
\* is sent as a wire message with an empty list of blocks.
C21_EmptyMessageSent ==
    request # None =>
        \A i \in 1..Len(context.history) :
            ~EncodesToABlock(context.history[i]) =>
                /\ request[1].messages[i].role = context.history[i].role
                /\ request[1].messages[i].content = <<>>

IsThinkingBlock(block) == block.type = "thinking"

IsOtherBlock(block) == block.type # "thinking"

IsSignedThinkPart(p) == p.type = "think" /\ p.encrypted # None

IsNotThinkPart(p) == p.type # "think"

\* The types of the blocks the content parts of a message stand for, in
\* order: nothing for an unsigned ThinkPart.
RECURSIVE BlockTypes(_)
BlockTypes(content) ==
    IF content = <<>> THEN <<>>
    ELSE (CASE Head(content).type = "text" -> <<"text">>
            [] Head(content).type = "image_url" -> <<"image">>
            [] IsSignedThinkPart(Head(content)) -> <<"thinking">>
            [] OTHER -> <<>>)
         \o BlockTypes(Tail(content))

\* Blocks without their cache_control marker.
Unmarked(blocks) == [b \in 1..Len(blocks) |-> [blocks[b] EXCEPT !.cache_control = None]]

\* C22: the Anthropic encoding emits a thinking block for a ThinkPart iff its
\* encrypted is set (not null).  The thinking blocks of a wire message are
\* those of the signed ThinkParts of the message, one each and in order, with
\* the part's think and its encrypted as signature; the other blocks are
\* those the message gives without its ThinkParts, and all the blocks are in
\* the order of the content.
C22_ThinkingIffSigned ==
    request # None =>
        \A i \in 1..Len(context.history) :
            context.history[i].role \in {"user", "assistant"} =>
                LET message == context.history[i]
                    blocks == request[1].messages[i].content
                    signed == SelectSeq(message.content, IsSignedThinkPart)
                    thinking == SelectSeq(blocks, IsThinkingBlock)
                    stripped == [message EXCEPT
                                    !.content = SelectSeq(message.content, IsNotThinkPart)]
                IN  /\ Len(thinking) = Len(signed)
                    /\ \A k \in 1..Len(signed) :
                          /\ thinking[k].thinking = signed[k].think
                          /\ thinking[k].signature = signed[k].encrypted[1]
                    /\ Unmarked(SelectSeq(blocks, IsOtherBlock)) =
                          message_to_anthropic(stripped).value.content
                    /\ Len(blocks) >= Len(BlockTypes(message.content))
                    /\ [b \in 1..Len(BlockTypes(message.content)) |-> blocks[b].type] =
                          BlockTypes(message.content)
                    /\ \A b \in (Len(BlockTypes(message.content)) + 1)..Len(blocks) :
                          blocks[b].type = "tool_use"

\* C22 witness: a message with an unsigned ThinkPart, a ThinkPart signed with
\* the empty string, a text and a ThinkPart signed "s" was encoded as a
\* thinking block, a text block and a thinking block, then its tool uses.
C22_Witness ==
    /\ request # None
    /\ Len(context.history) = 2
    /\ context.history[2].content =
          <<ThinkPart("t", None), ThinkPart("v", Some("")), TextPart("x"),
            ThinkPart("u", Some("s"))>>
    /\ Len(request[1].messages[2].content) = 5
    /\ request[1].messages[2].content[1] = ThinkingBlockParam("v", "")
    /\ request[1].messages[2].content[2] = TextBlockParam("x")
    /\ request[1].messages[2].content[3] = ThinkingBlockParam("u", "s")
    /\ request[1].messages[2].content[4].type = "tool_use"

IsRegistered(value) == value.type \in content_part_registry

\* C23: deserializing a message whose content holds a part of a type tag that
\* is not registered does not fail.  The parts of the registered variants are
\* deserialized as they are without it, in order, and the other part is
\* either kept with its tag and payload or dropped.
C23_UnknownPartTolerated ==
    fresh # None =>
        /\ fresh[1].raised = None
        /\ Len(fresh[1]._messages) = 1
        /\ LET content == fresh[1]._messages[1].content
               values == jsonl[1].content.value
               known == validate_content(SelectSeq(values, IsRegistered)).value
               kept == [k \in 1..Len(values) |->
                           IF IsRegistered(values[k])
                           THEN validate_content_part(values[k]).value
                           ELSE values[k]]
           IN  content = known \/ content = kept

\* What the validator does instead: with a part that is not registered the
\* restore raises KeyError and no message is restored.
C23_UnknownPartRaises ==
    fresh # None =>
        IF \E k \in 1..Len(jsonl[1].content.value) : ~IsRegistered(jsonl[1].content.value[k])
        THEN fresh[1].raised = Some("KeyError") /\ fresh[1]._messages = <<>>
        ELSE fresh[1].raised = None /\ Len(fresh[1]._messages) = 1

\* C30: JSONL persistence round-trips.  Once the storage that wrote is gone,
\* a new storage that restores the file holds the same messages in the same
\* order and the last token count marked, whatever the calls were and
\* whatever messages were added; a token-count line is never a message.
C30_JsonlRoundTrip ==
    (~writer.alive /\ fresh # None
        /\ fresh[1] = _restore(jsonl, [_messages |-> <<>>, _token_count |-> None,
                                       raised |-> None])) =>
        /\ fresh[1].raised = None
        /\ fresh[1]._messages = writer._messages
        /\ token_count(fresh[1]) = token_count(writer)
        /\ \A k \in 1..Len(fresh[1]._messages) : fresh[1]._messages[k].role # "_usage"

\* What does round-trip: the messages none of whose tool calls has
\* arguments of None.
HasNoneArguments(message) ==
    /\ message.tool_calls # None
    /\ \E k \in 1..Len(message.tool_calls[1]) : message.tool_calls[1][k].arguments = None

C30_RoundTripUnlessNoneArguments ==
    (~writer.alive /\ fresh # None
        /\ fresh[1] = _restore(jsonl, [_messages |-> <<>>, _token_count |-> None,
                                       raised |-> None])) =>
        IF \E k \in 1..Len(writer._messages) : HasNoneArguments(writer._messages[k])
        THEN fresh[1].raised = Some("ValidationError")
        ELSE /\ fresh[1].raised = None
             /\ fresh[1]._messages = writer._messages
             /\ token_count(fresh[1]) = token_count(writer)

\* C29: in an Anthropic request built from a history that is not empty and
\* whose last wire message has a content block, the last block of the last
\* message carries the ephemeral cache_control marker and no other block of
\* any message carries one.
C29_CacheControlOnLastBlock ==
    (/\ request # None
     /\ context.history # <<>>
     /\ request[1].messages # <<>>
     /\ request[1].messages[Len(request[1].messages)].content # <<>>) =>
        LET wire == request[1].messages
            n == Len(wire)
        IN  \A m \in 1..n : \A b \in 1..Len(wire[m].content) :
                wire[m].content[b].cache_control =
                    (IF m = n /\ b = Len(wire[n].content) THEN Some("ephemeral") ELSE None)

\* What the adapter does instead: no block of any message is marked.
C29_NoBlockMarked ==
    request # None =>
        \A m \in 1..Len(request[1].messages) :
            \A b \in 1..Len(request[1].messages[m].content) :
                request[1].messages[m].content[b].cache_control = None

\* The first index of the maximal run of ToolCallParts that holds index i.
RECURSIVE RunStart(_)
RunStart(i) ==
    IF i > 1 /\ IsToolCallPart(stream[i - 1]) THEN RunStart(i - 1) ELSE i

\* The orphaned fragments: the ToolCallParts of a run that starts the stream
\* or follows a part that is not a ToolCall.
Orphans ==
    {i \in 1..Len(stream) :
        /\ IsToolCallPart(stream[i])
        /\ RunStart(i) = 1 \/ ~IsToolCall(stream[RunStart(i) - 1])}

Refs(refs) == {refs[k] : k \in 1..Len(refs)}

\* C24: a ToolCallPart only ever extends the ToolCall right before it.  The
\* fragments of a run that starts the stream or follows another kind of part
\* are discarded: they are never among the content parts or the tool calls,
\* no ToolCall before them has its arguments changed by them, no ToolCall
\* after them either, and on_tool_call fires for ToolCalls only.
C24_OrphansDiscarded ==
    /\ \A i \in Orphans :
          /\ i \notin Refs(content_parts) \cup Refs(builder_tool_calls)
          /\ i <= pos => \A j \in ToolCallIndexes : j < i => message_parts[j] = Completed(j)
    /\ \A k \in 1..Len(fired) : IsToolCall(stream[fired[k].call])
    /\ Len(fired) <= Cardinality({j \in ToolCallIndexes : j <= pos})
    /\ outcome.kind = "returned" =>
          /\ \A k \in 1..Len(outcome.message.content) :
                IsContentPart(outcome.message.content[k])
          /\ Len(outcome.message.content) =
                Cardinality({i \in 1..Len(stream) : IsContentPart(stream[i])})
                - Cardinality({i \in 1..Len(stream) : IsContentPart(stream[i]) /\ Absorbed(i)})
          /\ Len(MessageToolCalls) = Cardinality(ToolCallIndexes)
          /\ \A i \in ToolCallIndexes : MessageToolCalls[Rank(i)] = Completed(i)

\* C24 witness: a fragment arrived after a text that followed a ToolCall and
\* its own fragment; the call kept the arguments of its own run and was the
\* only one dispatched.
C24_Witness ==
    /\ outcome.kind = "returned"
    /\ Len(stream) = 3
    /\ stream[1] = ToolCall("1", "plus", Some("{"))
    /\ stream[2].type = "text"
    /\ stream[3] = ToolCallPart(Some("a}"))
    /\ 3 \in Orphans
    /\ MessageToolCalls = <<ToolCall("1", "plus", Some("{"))>>
    /\ Len(outcome.message.content) = 1
    /\ Len(fired) = 1

\* C25: two ToolCalls of one step that carry the same id each get their own
\* result.  The future registered for the i-th tool call is the one of the
\* i-th dispatch, tool_results() returns for the i-th tool call the outcome of
\* that call's own execution, and on_tool_result has fired once per resolved
\* call.
C25_SameIdOwnResult ==
    /\ outcome.kind = "returned" =>
          \A i \in 1..Len(tool_calls) : tool_result_futures[message_parts[tool_calls[i]].id] = i
    /\ rpc = "returned" =>
          /\ Len(results) = Len(tool_calls)
          /\ \A i \in 1..Len(results) :
                /\ dispatches[i].future # None
                /\ results[i] = dispatches[i].future[1]
    /\ Len(tool_result_log) =
          Cardinality({k \in 1..Len(dispatches) : dispatches[k].future # None})

\* What holds instead: the result reported for the i-th tool call is that of
\* the last call dispatched with the same id; on_tool_result does fire once
\* per resolved call.
C25_LastOfSameIdWins ==
    /\ rpc = "returned" =>
          /\ Len(results) = Len(tool_calls)
          /\ \A i \in 1..Len(results) :
                LET same == {k \in 1..Len(dispatches) :
                                message_parts[dispatches[k].call].id =
                                    message_parts[tool_calls[i]].id}
                    last == CHOOSE k \in same : \A o \in same : o <= k
                IN  results[i] = dispatches[last].future[1]
    /\ Len(tool_result_log) =
          Cardinality({k \in 1..Len(dispatches) : dispatches[k].future # None})

\* C26: generate is repeatable and leaves the provider's parts alone.  When a
\* run returns, the parts the provider holds have the values they had before
\* it, and a second run on the same provider returns a message equal to the
\* one the first run returned.
C26_GenerateRepeatable ==
    /\ outcome.kind = "returned" => message_parts = stream
    /\ (outcome.kind = "returned" /\ returned # <<>>) =>
          outcome.message = returned[1]

\* Two entries that merge_in_place would still merge.
CouldMerge(first, second) == merge_in_place(first, second).ok

\* C27: the message generate returns is merged as much as possible.  No two
\* consecutive entries of its content could still be merged with each other:
\* there are no two adjacent TextParts and no unsealed ThinkPart right before
\* another ThinkPart, whatever arrived between the parts in the stream.
C27_MergedAsMuchAsPossible ==
    outcome.kind = "returned" =>
        \A k \in 1..(Len(outcome.message.content) - 1) :
            ~CouldMerge(outcome.message.content[k], outcome.message.content[k + 1])

\* What holds instead: two consecutive entries of the content that could
\* still be merged were kept apart in the stream by a ToolCall or by
\* ToolCallParts.
C27_MergedUnlessSeparated ==
    outcome.kind = "returned" =>
        \A k \in 1..(Len(outcome.message.content) - 1) :
            CouldMerge(outcome.message.content[k], outcome.message.content[k + 1])
                => ~IsContentPart(stream[content_parts[k + 1] - 1])


\* The on_message_part invocations that have started and not completed.
InProgress == pos - Len(delivered)

\* C28: back-pressure.  Each on_message_part and on_tool_call invocation is
\* awaited to completion before generate asks the stream for its next part: at
\* most one invocation is in progress at any time, it is the one generate is
\* suspended in, generate is at the stream only when none is, on_tool_call runs
\* only when every on_message_part started so far has completed, and the
\* invocations complete in the order they were started, which is the order of
\* the stream.
C28_BackPressure ==
    /\ InProgress \in {0, 1}
    /\ InProgress = 1 <=> pc = "on_message_part"
    /\ pc = "pull" => Len(delivered) = pos
    /\ \A k \in 1..Len(fired) :
          /\ fired[k].delivered = fired[k].pulled
          /\ \A l \in 1..Len(fired) : k < l => fired[k].delivered <= fired[l].delivered
    /\ \A i \in 1..Len(delivered) : delivered[i] = stream[i]

\* A run that returned after three parts were delivered one at a time and a
\* tool call fired between two of them.
C28_Witness ==
    /\ outcome.kind = "returned"
    /\ Len(delivered) = 3
    /\ Len(fired) >= 1
    /\ fired[1].delivered = 2

====
